---- MODULE Spec2Model ----
(***************************************************************************)
(* A model of the NWWS-OI XMPP monitor (nwws-xmpp-monitor): the message    *)
(* pipeline of index.js (categorizer, alert parser, storm report parser,   *)
(* webhook sender) and the fixed-format decoders (VTEC, UGC).              *)
(*                                                                         *)
(* JavaScript strings are modelled as sequences of one-character strings,  *)
(* so that split, substring, indexOf, padStart, toLowerCase and the        *)
(* regular expressions are computed character by character.                *)
(***************************************************************************)
EXTENDS Integers, Sequences, FiniteSets, TLC

VARIABLES
    ugcIn,      \* SpecUgc: the components the input message is built from
    ugcOut,     \* SpecUgc: results of getHeader / getZones / getUgc
    vtecIn,     \* SpecVtec: the components the input message is built from
    vtecOut,    \* SpecVtec: result of getVtec
    parseIn,    \* SpecParse: the message handed to the categorizer and parsers
    parseOut,   \* SpecParse: which function was called and what it returned
    env,        \* Spec: process.env (WEBHOOK_URL, UGC_FILTER_CODES)
    received,   \* Spec: number of stanzas handleStanza has been called with
    handlers,   \* Spec: the calls of handleIncomingMessage, in start order
    sent,       \* Spec: the calls of sendToWebhook, in call order
    configured, \* SpecClient: whether the XMPP_* settings are all present
    client,     \* SpecClient: the status of this.client ("null" without one)
    created,    \* SpecClient: the number of clients connect() has created
    reconnectionTimeout,  \* SpecClient: this.reconnectionTimeout, in ms
    initialConnection,    \* SpecClient: this.initialConnection
    reconnectTimerId,     \* SpecClient: this.reconnectTimerId (0 when unset)
    timers,     \* SpecClient: the timers that are set and have not fired
    attempts    \* SpecClient: the calls of connect() and of the timer callback

ugcVars == <<ugcIn, ugcOut>>
vtecVars == <<vtecIn, vtecOut>>
parseVars == <<parseIn, parseOut>>
pipelineVars == <<env, received, handlers, sent>>
clientVars == <<configured, client, created, reconnectionTimeout, initialConnection,
                reconnectTimerId, timers, attempts>>
vars == <<ugcVars, vtecVars, parseVars, pipelineVars, clientVars>>

-----------------------------------------------------------------------------
(* JavaScript values *)

\* null and undefined where a string is expected: a one-element sequence
\* whose element is no character, so it equals no string.
NULL == <<"null">>
UNDEFINED == <<"undefined">>
\* null where an object is expected
NullObj == [null |-> TRUE]

\* a value that is not a string where one is expected (an object)
OBJECT == <<"object">>
IsString(v) == v # NULL /\ v # UNDEFINED /\ v # OBJECT

\* JavaScript truthiness of a string-or-null value (!x is ~Truthy(x))
Truthy(s) == s # NULL /\ s # UNDEFINED /\ s # <<>>

\* JavaScript objects are functions over their own property names
Get(obj, key) == IF key \in DOMAIN obj THEN obj[key] ELSE UNDEFINED

Upper == {"A", "B", "C", "D", "E", "F", "G", "H", "I", "J", "K", "L", "M",
          "N", "O", "P", "Q", "R", "S", "T", "U", "V", "W", "X", "Y", "Z"}
Lower == {"a", "b", "c", "d", "e", "f", "g", "h", "i", "j", "k", "l", "m",
          "n", "o", "p", "q", "r", "s", "t", "u", "v", "w", "x", "y", "z"}
Digit == {"0", "1", "2", "3", "4", "5", "6", "7", "8", "9"}
WhiteSpace == {" ", "\n", "\t", "\r"}
\* \w of a JavaScript regular expression
WordChar == Upper \cup Lower \cup Digit \cup {"_"}

UpperSeq == <<"A", "B", "C", "D", "E", "F", "G", "H", "I", "J", "K", "L", "M",
              "N", "O", "P", "Q", "R", "S", "T", "U", "V", "W", "X", "Y", "Z">>
LowerSeq == <<"a", "b", "c", "d", "e", "f", "g", "h", "i", "j", "k", "l", "m",
              "n", "o", "p", "q", "r", "s", "t", "u", "v", "w", "x", "y", "z">>
DigitSeq == <<"0", "1", "2", "3", "4", "5", "6", "7", "8", "9">>

MinOf(S) == CHOOSE x \in S : \A y \in S : x <= y
MaxOf(S) == CHOOSE x \in S : \A y \in S : x >= y
Min2(a, b) == IF a <= b THEN a ELSE b
Max2(a, b) == IF a >= b THEN a ELSE b

\* the k-th smallest element of a set of integers
KthOf(S, k) == CHOOSE p \in S : Cardinality({q \in S : q <= p}) = k

DigitVal(c) == (CHOOSE i \in 1..10 : DigitSeq[i] = c) - 1

\* String.prototype.toLowerCase / toUpperCase
LowerChar(c) == IF c \in Upper THEN LowerSeq[CHOOSE i \in 1..26 : UpperSeq[i] = c] ELSE c
UpperChar(c) == IF c \in Lower THEN UpperSeq[CHOOSE i \in 1..26 : LowerSeq[i] = c] ELSE c
ToLowerCase(s) == [i \in 1..Len(s) |-> LowerChar(s[i])]
ToUpperCase(s) == [i \in 1..Len(s) |-> UpperChar(s[i])]

\* String.prototype.substring(a, b), 0-based: both ends clamped to
\* [0, length], swapped when a > b.
Clamp(n, len) == Max2(0, Min2(n, len))
Substring(s, a, b) ==
    LET ca == Clamp(a, Len(s))
        cb == Clamp(b, Len(s))
    IN  SubSeq(s, Min2(ca, cb) + 1, Max2(ca, cb))
SubstringFrom(s, a) == Substring(s, a, Len(s))

\* String.prototype.indexOf(c, from) for a one-character c: 0-based, -1 if absent
IndexOfChar(s, c, from) ==
    LET hits == {i \in Max2(from, 0)..(Len(s) - 1) : s[i + 1] = c}
    IN  IF hits = {} THEN -1 ELSE MinOf(hits)

\* sub occurs in s at 0-based position i
OccursAt(s, sub, i) ==
    /\ i >= 0
    /\ i + Len(sub) <= Len(s)
    /\ \A k \in 1..Len(sub) : s[i + k] = sub[k]
\* String.prototype.indexOf(sub) / includes / startsWith / lastIndexOf
IndexOf(s, sub) ==
    LET hits == {i \in 0..(Len(s) - Len(sub)) : OccursAt(s, sub, i)}
    IN  IF hits = {} THEN -1 ELSE MinOf(hits)
LastIndexOf(s, sub) ==
    LET hits == {i \in 0..(Len(s) - Len(sub)) : OccursAt(s, sub, i)}
    IN  IF hits = {} THEN -1 ELSE MaxOf(hits)
Includes(s, sub) == IndexOf(s, sub) # -1
StartsWith(s, sub) == OccursAt(s, sub, 0)
EndsWith(s, sub) == OccursAt(s, sub, Len(s) - Len(sub))

\* String.prototype.split(c) on a one-character separator: "a-b-" gives
\* <<"a", "b", "">>, and "" gives <<"">>.
Split(s, c) ==
    LET seps == {i \in 1..Len(s) : s[i] = c}
        n == Cardinality(seps)
        \* position of the k-th separator; 0 and Len(s) + 1 fence the ends
        SepAt(k) ==
            IF k = 0 THEN 0 ELSE IF k > n THEN Len(s) + 1 ELSE KthOf(seps, k)
    IN  [k \in 1..(n + 1) |-> SubSeq(s, SepAt(k - 1) + 1, SepAt(k) - 1)]

\* String.prototype.split(/\s+/).filter(s => s.length > 0): the maximal runs
\* of characters that are not white space
Words(s) ==
    LET starts == {i \in 1..Len(s) :
                      s[i] \notin WhiteSpace /\ (i = 1 \/ s[i - 1] \in WhiteSpace)}
        EndOf(i) == MinOf({j \in i..Len(s) :
                              j = Len(s) \/ s[j + 1] \in WhiteSpace})
    IN  [k \in 1..Cardinality(starts) |->
            SubSeq(s, KthOf(starts, k), EndOf(KthOf(starts, k)))]

\* concatenation of the sequences ss[lo], ..., ss[hi], by halves
RECURSIVE ConcatRange(_, _, _)
ConcatRange(ss, lo, hi) ==
    IF lo > hi THEN <<>>
    ELSE IF lo = hi THEN ss[lo]
    ELSE LET mid == (lo + hi) \div 2
         IN  ConcatRange(ss, lo, mid) \o ConcatRange(ss, mid + 1, hi)
\* concatenation of a sequence of sequences
Flatten(ss) == ConcatRange(ss, 1, Len(ss))

\* the elements of seq at the positions in keep, in order (Array.filter)
AtPositions(seq, keep) ==
    Flatten([i \in 1..Len(seq) |-> IF i \in keep THEN <<seq[i]>> ELSE <<>>])

\* Array.prototype.join(sep)
RECURSIVE Join(_, _)
Join(parts, sep) ==
    IF Len(parts) = 0 THEN <<>>
    ELSE IF Len(parts) = 1 THEN parts[1]
    ELSE parts[1] \o sep \o Join(Tail(parts), sep)

\* String.prototype.trim
Trim(s) ==
    LET keep == {i \in 1..Len(s) : s[i] \notin WhiteSpace}
    IN  IF keep = {} THEN <<>> ELSE SubSeq(s, MinOf(keep), MaxOf(keep))


\* parseInt(s, 10): leading white space skipped, an optional sign, then the
\* longest run of digits; NaN when there is no digit there.
RECURSIVE DigitsValue(_, _)
DigitsValue(s, acc) ==
    IF Len(s) = 0 \/ s[1] \notin Digit THEN acc
    ELSE DigitsValue(Tail(s), 10 * acc + DigitVal(s[1]))
\* s without its leading white space
TrimStart(s) ==
    LET body == {i \in 1..Len(s) : s[i] \notin WhiteSpace}
    IN  IF body = {} THEN <<>> ELSE SubSeq(s, MinOf(body), Len(s))
\* the sign of a number text and the text after the sign
IsNegative(t) == Len(t) > 0 /\ t[1] = "-"
Unsigned(t) == IF Len(t) > 0 /\ t[1] \in {"-", "+"} THEN Tail(t) ELSE t
\* the number of digits of s from index from on
DigitRun(s, from) ==
    LET stop == {i \in from..Len(s) : s[i] \notin Digit}
    IN  IF stop = {} THEN Len(s) - from + 1 ELSE MinOf(stop) - from
\* a number with the sign neg and the magnitude mag
SignedNumber(neg, mag) == [nan |-> FALSE, val |-> IF neg THEN 0 - mag ELSE mag]
NaN == [nan |-> TRUE, val |-> 0]
ParseIntOf(neg, u) ==
    IF Len(u) = 0 \/ u[1] \notin Digit THEN NaN
    ELSE SignedNumber(neg, DigitsValue(u, 0))
ParseIntTrimmed(t) == ParseIntOf(IsNegative(t), Unsigned(t))
ParseInt(s) ==
    IF s = UNDEFINED \/ s = NULL THEN NaN ELSE ParseIntTrimmed(TrimStart(s))

\* Number.prototype.toString() of an integer
RECURSIVE NatToString(_)
NatToString(n) ==
    IF n < 10 THEN <<DigitSeq[n + 1]>>
    ELSE NatToString(n \div 10) \o <<DigitSeq[(n % 10) + 1]>>
IntToString(n) == IF n < 0 THEN <<"-">> \o NatToString(0 - n) ELSE NatToString(n)

\* Numbers with a fraction are carried in hundredths: 34.5 is 3450.
\* parseFloat(s): leading white space, an optional sign, digits, an optional
\* point and digits; NaN when no digit is there. Decimals beyond the second
\* are not carried.
\* u holds intLen integer digits and, after a point, fracLen decimals
ParseFloatOf(neg, u, intLen, fracLen) ==
    IF intLen = 0 /\ fracLen = 0 THEN NaN
    ELSE SignedNumber(neg,
             100 * DigitsValue(SubSeq(u, 1, intLen), 0)
                 + DigitsValue(SubSeq(SubSeq(u, intLen + 2, intLen + 1 + fracLen)
                                          \o <<"0", "0">>, 1, 2), 0))
ParseFloatInt(neg, u, intLen) ==
    ParseFloatOf(neg, u, intLen,
                 IF intLen < Len(u) /\ u[intLen + 1] = "."
                 THEN DigitRun(u, intLen + 2) ELSE 0)
ParseFloatTrimmed(t) ==
    ParseFloatInt(IsNegative(t), Unsigned(t), DigitRun(Unsigned(t), 1))
ParseFloat(s) ==
    IF ~IsString(s) THEN NaN ELSE ParseFloatTrimmed(TrimStart(s))
\* a !== b on numbers: NaN differs from everything, itself included
NumDiffers(a, b) == a.nan \/ b.nan \/ a.val # b.val

\* String.prototype.padStart(width, "0")
PadStart(s, width) ==
    IF Len(s) >= width THEN s ELSE [i \in 1..(width - Len(s)) |-> "0"] \o s

\* A regular expression that is a fixed sequence of character classes:
\* it matches s at 1-based position i when each character is in its class.
MatchesAt(s, classes, i) ==
    /\ i >= 1
    /\ i + Len(classes) - 1 <= Len(s)
    /\ \A k \in 1..Len(classes) : s[i + k - 1] \in classes[k]
\* 1-based position of the leftmost match, 0 when there is none
FirstMatch(s, classes) ==
    LET hits == {i \in 1..(Len(s) - Len(classes) + 1) : MatchesAt(s, classes, i)}
    IN  IF hits = {} THEN 0 ELSE MinOf(hits)

-----------------------------------------------------------------------------
(* JavaScript regular expressions *)

\* A pattern is a sequence of items, matched left to right with
\* backtracking, the longest repetition first and alternatives in the order
\* written:
\*   [kind "cls", cls, neg, min, max]  min to max characters in (neg: not
\*                                     in) the set cls
\*   [kind "alt", alts]                one of the literal strings alts
\*   [kind "wordb"]                    \b
\*   [kind "end"]                      $ (no m flag)
Unbounded == 1000
Cls(cls, min, max) ==
    << [kind |-> "cls", cls |-> cls, neg |-> FALSE, min |-> min, max |-> max] >>
NotCls(cls, min, max) ==
    << [kind |-> "cls", cls |-> cls, neg |-> TRUE, min |-> min, max |-> max] >>
Alt(alts) == << [kind |-> "alt", alts |-> alts] >>
Lit(str) == Alt(<<str>>)
WordB == << [kind |-> "wordb"] >>
EndOfText == << [kind |-> "end"] >>

\* the offsets an item may reach from offset pos, most preferred first
ItemOptions(s, it, pos) ==
    CASE it.kind = "cls" ->
             LET limit == Min2(it.max, Len(s) - pos)
                 stop == {n \in 1..limit : (s[pos + n] \in it.cls) = it.neg}
                 run == IF stop = {} THEN limit ELSE MinOf(stop) - 1
             IN  IF run < it.min THEN <<>>
                 ELSE [j \in 1..(run - it.min + 1) |-> pos + run - j + 1]
      [] it.kind = "alt" ->
             LET fit == {a \in 1..Len(it.alts) : OccursAt(s, it.alts[a], pos)}
             IN  [j \in 1..Cardinality(fit) |-> pos + Len(it.alts[KthOf(fit, j)])]
      [] it.kind = "wordb" ->
             LET before == pos >= 1 /\ s[pos] \in WordChar
                 after == pos < Len(s) /\ s[pos + 1] \in WordChar
             IN  IF before # after THEN <<pos>> ELSE <<>>
      [] it.kind = "end" -> IF pos = Len(s) THEN <<pos>> ELSE <<>>

\* items[k..] matched from offset pos: [ok, ends], ends[j] the offset
\* reached after item k + j - 1
RECURSIVE ReMatch(_, _, _, _)
RECURSIVE ReTry(_, _, _, _, _)
ReTry(s, items, k, options, j) ==
    IF j > Len(options) THEN [ok |-> FALSE, ends |-> <<>>]
    ELSE LET rest == ReMatch(s, items, k + 1, options[j])
         IN  IF rest.ok THEN [ok |-> TRUE, ends |-> <<options[j]>> \o rest.ends]
             ELSE ReTry(s, items, k, options, j + 1)
ReMatch(s, items, k, pos) ==
    IF k > Len(items) THEN [ok |-> TRUE, ends |-> <<>>]
    ELSE ReTry(s, items, k, ItemOptions(s, items[k], pos), 1)

\* the leftmost match starting at one of the offsets in starts:
\* [ok, start, ends]
ReFound(start, found) == [ok |-> TRUE, start |-> start, ends |-> found.ends]
ReLeftmost(s, items, hits) ==
    IF hits = {} THEN [ok |-> FALSE, start |-> 0, ends |-> <<>>]
    ELSE ReFound(MinOf(hits), ReMatch(s, items, 1, MinOf(hits)))
ReSearch(s, items, starts) ==
    ReLeftmost(s, items, {p \in starts : ReMatch(s, items, 1, p).ok})
\* regexp.test(s) for a pattern without ^
ReTest(s, items) == ReSearch(s, items, 0..Len(s)).ok
\* regexp.test(s) for a pattern that begins with ^ (no m flag)
ReTestAtStart(s, items) == ReMatch(s, items, 1, 0).ok
\* the text between two offsets
Between(s, from, to) == SubSeq(s, from + 1, to)

-----------------------------------------------------------------------------
(* parser_config.js: definitions *)

\* ugc_start_regexp: /[A-Z]{2}[CZ][0-9]{3}(-[0-9]{6})?/ ; the optional group
\* changes neither whether nor where the pattern matches.
ugc_start_regexp == <<Upper, Upper, {"C", "Z"}, Digit, Digit, Digit>>

-----------------------------------------------------------------------------
(* ugcParser.js: class UgcParser *)

\* variant of StripTimestamp that leaves the timestamp in place
StripTimestampKept(s, n) == s

\* header.replace(/(-[0-9]{n}-?)$/, ''): a dash and exactly n digits, with
\* or without one more dash, at the very end of the string.
StripTimestamp(s, n) ==
    LET dashDigits == <<{"-"}>> \o [i \in 1..n |-> Digit]
    IN  IF MatchesAt(s, dashDigits \o <<{"-"}>>, Len(s) - n - 1)
        THEN SubSeq(s, 1, Len(s) - n - 2)
        ELSE IF MatchesAt(s, dashDigits, Len(s) - n)
        THEN SubSeq(s, 1, Len(s) - n - 1)
        ELSE s

\* header.replace(/[^A-Z0-9>\-]+$/, '')
StripTrailingJunk(s) ==
    LET good == {i \in 1..Len(s) : s[i] \in Upper \cup Digit \cup {">", "-"}}
    IN  IF good = {} THEN <<>> ELSE SubSeq(s, 1, MaxOf(good))

\* getHeader(message)
IsUgcLine(trimmedLine) ==
    /\ FirstMatch(trimmedLine, ugc_start_regexp) # 0
    /\ ~StartsWith(trimmedLine, <<"/">>)
HeaderOfLines(lines, hits) ==
    IF hits = {} THEN NULL
    ELSE StripTrailingJunk(
             StripTimestamp(StripTimestamp(Trim(lines[MinOf(hits)]), 6), 8))
HeaderAmong(lines) ==
    HeaderOfLines(lines, {k \in 1..Len(lines) : IsUgcLine(Trim(lines[k]))})
getHeader(message) ==
    IF ~Truthy(message) THEN NULL ELSE HeaderAmong(Split(message, "\n"))

\* variant of ZonesOfPart whose range loop stops before endNum
ZonesOfPartExclusive(currentState, currentFormat, text) ==
    IF Includes(text, <<">">>)
    THEN LET pieces == Split(text, ">")
             startNum == ParseInt(pieces[1])
             endNum == ParseInt(pieces[2])
         IN  IF ~startNum.nan /\ ~endNum.nan /\ startNum.val < endNum.val
             THEN [k \in 1..(endNum.val - startNum.val) |->
                      currentState \o currentFormat
                          \o PadStart(IntToString(startNum.val + k - 1), 3)]
             ELSE <<>>
    ELSE << currentState \o currentFormat \o PadStart(text, 3) >>

\* for (let j = startNum; j <= endNum; j++) zones.push(...)
ZoneRange(currentState, currentFormat, startNum, endNum) ==
    IF ~startNum.nan /\ ~endNum.nan /\ startNum.val <= endNum.val
    THEN [k \in 1..(endNum.val - startNum.val + 1) |->
             currentState \o currentFormat
                 \o PadStart(IntToString(startNum.val + k - 1), 3)]
    ELSE <<>>
ZoneRangeOf(currentState, currentFormat, pieces) ==
    ZoneRange(currentState, currentFormat, ParseInt(pieces[1]), ParseInt(pieces[2]))
\* the zones one number-or-range text contributes under a state and format
ZonesOfPart(currentState, currentFormat, text) ==
    IF Includes(text, <<">">>)
    THEN ZoneRangeOf(currentState, currentFormat, Split(text, ">"))
    ELSE << currentState \o currentFormat \o PadStart(text, 3) >>

\* the zones of a part that names its state and format
ZonesOfPrefixed(st, fm, zoneNumberPart) ==
    IF Includes(zoneNumberPart, <<">">>) \/ zoneNumberPart # <<>>
    THEN ZonesOfPart(st, fm, zoneNumberPart)
    ELSE <<>>

\* the loop of getZones over ugcSplit[i..], carrying currentState/currentFormat
RECURSIVE ZonesLoop(_, _, _, _)
ZonesLoop(ugcSplit, i, currentState, currentFormat) ==
    IF i > Len(ugcSplit) THEN <<>>
    ELSE
    LET part == ugcSplit[i]
        Step(zones, st, fm) == zones \o ZonesLoop(ugcSplit, i + 1, st, fm)
    IN  IF part = <<>> THEN Step(<<>>, currentState, currentFormat)
        ELSE IF MatchesAt(part, <<Upper, Upper, {"C", "Z"}>>, 1)
        THEN Step(ZonesOfPrefixed(SubSeq(part, 1, 2), SubSeq(part, 3, 3),
                                  SubstringFrom(part, 3)),
                  SubSeq(part, 1, 2), SubSeq(part, 3, 3))
        ELSE IF currentState = <<>> \/ currentFormat = <<>>
        THEN Step(<<>>, currentState, currentFormat)
        ELSE Step(ZonesOfPart(currentState, currentFormat, part),
                  currentState, currentFormat)

\* getZones(header)
getZones(header) ==
    IF ~Truthy(header) THEN <<>>
    ELSE LET notEmpty(z) == z # <<>>
         IN  SelectSeq(ZonesLoop(Split(header, "-"), 1, <<>>, <<>>), notEmpty)

\* getUgc(message): the ugc object {zones}, or null
UgcOfZones(zones) == IF Len(zones) > 0 THEN [zones |-> zones] ELSE NullObj
UgcOfHeader(header) ==
    IF ~Truthy(header) THEN NullObj ELSE UgcOfZones(getZones(header))
getUgc(message) ==
    IF ~Truthy(message) THEN NullObj ELSE UgcOfHeader(getHeader(message))

-----------------------------------------------------------------------------
(* parser_config.js: definitions (the VTEC tables) *)

\* vtec_regexp:
\* /\/([A-Z0-9]\.[A-Z]{3}\.[A-Z0-9]{2}\.[A-Z]{2}\.\w\.[0-9]{4}\.
\*     [0-9]{6}T[0-9]{4}Z-[0-9]{6}T[0-9]{4}Z)\//
vtec_regexp ==
    << {"/"}, Upper \cup Digit, {"."}, Upper, Upper, Upper, {"."},
       Upper \cup Digit, Upper \cup Digit, {"."}, Upper, Upper, {"."},
       WordChar, {"."}, Digit, Digit, Digit, Digit, {"."},
       Digit, Digit, Digit, Digit, Digit, Digit, {"T"},
       Digit, Digit, Digit, Digit, {"Z"}, {"-"},
       Digit, Digit, Digit, Digit, Digit, Digit, {"T"},
       Digit, Digit, Digit, Digit, {"Z"}, {"/"} >>

\* wmo_regexp: /[A-Z]{4}[0-9]{2}\s[A-Z]{4}\s[0-9]{6}/
wmo_regexp ==
    << Upper, Upper, Upper, Upper, Digit, Digit, WhiteSpace,
       Upper, Upper, Upper, Upper, WhiteSpace,
       Digit, Digit, Digit, Digit, Digit, Digit >>

\* event_codes, event_types, status_signatures: key/value pairs
event_codes ==
    { << <<"S", "V">>, <<"S", "e", "v", "e", "r", "e", " ", "T", "h", "u", "n", "d", "e", "r", "s", "t", "o", "r", "m", " ", "W", "a", "r", "n", "i", "n", "g">> >>,
      << <<"T", "O">>, <<"T", "o", "r", "n", "a", "d", "o", " ", "W", "a", "r", "n", "i", "n", "g">> >>,
      << <<"F", "F">>, <<"F", "l", "a", "s", "h", " ", "F", "l", "o", "o", "d", " ", "W", "a", "r", "n", "i", "n", "g">> >>,
      << <<"F", "A">>, <<"F", "l", "o", "o", "d", " ", "A", "d", "v", "i", "s", "o", "r", "y">> >>,
      << <<"F", "L">>, <<"F", "l", "o", "o", "d", " ", "W", "a", "r", "n", "i", "n", "g">> >>,
      << <<"M", "A">>, <<"M", "a", "r", "i", "n", "e", " ", "A", "d", "v", "i", "s", "o", "r", "y">> >>,
      << <<"U", "P">>, <<"U", "n", "k", "n", "o", "w", "n", " ", "P", "r", "e", "c", "i", "p", "i", "t", "a", "t", "i", "o", "n">> >> }
event_types ==
    { << <<"W">>, <<"W", "a", "r", "n", "i", "n", "g">> >>,
      << <<"A">>, <<"W", "a", "t", "c", "h">> >>,
      << <<"Y">>, <<"A", "d", "v", "i", "s", "o", "r", "y">> >>,
      << <<"S">>, <<"S", "t", "a", "t", "e", "m", "e", "n", "t">> >> }
status_signatures ==
    { << <<"N", "E", "W">>, <<"N", "e", "w">> >>,
      << <<"C", "O", "N">>, <<"C", "o", "n", "t", "i", "n", "u", "e", "d">> >>,
      << <<"E", "X", "P">>, <<"E", "x", "p", "i", "r", "e", "d">> >>,
      << <<"C", "A", "N">>, <<"C", "a", "n", "c", "e", "l", "l", "e", "d">> >> }

\* definitions.ignored_event_names: no such property is defined, so
\* parseAlert's ignore-list check never applies
ignored_event_names == {}

\* table[code] of a JavaScript object used as a map: undefined when absent
Lookup(table, code) ==
    IF \E p \in table : p[1] = code
    THEN (CHOOSE p \in table : p[1] = code)[2]
    ELSE UNDEFINED

-----------------------------------------------------------------------------
(* class VtecParser (alertParser.js, lines 915-1014) *)

\* getEventName(code): definitions.event_codes[code] || code
getEventName(code) ==
    IF Truthy(Lookup(event_codes, code)) THEN Lookup(event_codes, code) ELSE code
\* getEventSignificance(code)
getEventSignificance(code) ==
    IF Truthy(Lookup(event_types, code)) THEN Lookup(event_types, code) ELSE code
\* getEventStatus(code)
getEventStatus(code) ==
    IF Truthy(Lookup(status_signatures, code))
    THEN Lookup(status_signatures, code) ELSE code

\* formatVtecDate(vtecDateStr)
formatVtecDate(vtecDateStr) ==
    IF \/ ~Truthy(vtecDateStr)
       \/ Len(vtecDateStr) # 13
       \/ vtecDateStr[7] # "T"
       \/ vtecDateStr[13] # "Z"
    THEN vtecDateStr
    ELSE <<"2", "0">> \o Substring(vtecDateStr, 0, 2) \o <<"-">>
             \o Substring(vtecDateStr, 2, 4) \o <<"-">>
             \o Substring(vtecDateStr, 4, 6) \o <<"T">>
             \o Substring(vtecDateStr, 7, 9) \o <<":">>
             \o Substring(vtecDateStr, 9, 11) \o <<":", "0", "0", "Z">>

\* the index into splitVTEC (0-based) that getVtec splits into the two dates
VtecDatesIndex == 5

\* getVtec(message): the vtec object, or null
getVtec(message) ==
    IF ~Truthy(message) THEN NullObj
    ELSE
    LET at == FirstMatch(message, vtec_regexp)
    IN  IF at = 0 THEN NullObj
        ELSE
        LET vtecString == SubSeq(message, at + 1, at + Len(vtec_regexp) - 2)
            splitVTEC == Split(vtecString, ".")
        IN  IF ~Truthy(vtecString) THEN NullObj
            ELSE IF Len(splitVTEC) < 7 THEN NullObj
            ELSE
            LET vtecDates == Split(splitVTEC[VtecDatesIndex + 1], "-")
                wmoAt == FirstMatch(message, wmo_regexp)
            IN  IF Len(vtecDates) < 2 THEN NullObj
                ELSE [ fullVtecString |-> vtecString,
                       action |-> getEventStatus(splitVTEC[2]),
                       officeId |-> splitVTEC[3],
                       phenomena |-> getEventName(splitVTEC[4]),
                       significance |-> getEventSignificance(splitVTEC[5]),
                       eventTrackingNumber |->
                           Substring(splitVTEC[6], 0,
                                     IndexOfChar(splitVTEC[6], ".", 6) - 1),
                       startTime |-> formatVtecDate(vtecDates[1]),
                       endTime |-> formatVtecDate(vtecDates[2]),
                       eventStatus |-> getEventStatus(splitVTEC[2]),
                       wmoHeader |->
                           IF wmoAt = 0 THEN UNDEFINED
                           ELSE SubSeq(message, wmoAt,
                                       wmoAt + Len(wmo_regexp) - 1) ]

-----------------------------------------------------------------------------
(* SpecUgc: the UGC decoder applied to product texts built from components *)

\* bounds of the inputs
MaxSpan == 3
ZoneBases == {0, 1, 8, 98}
NoRange == 0 - 2

\* the three digits of n < 1000, by arithmetic
Digits3(n) ==
    << DigitSeq[(n \div 100) + 1], DigitSeq[((n \div 10) % 10) + 1],
       DigitSeq[(n % 10) + 1] >>

NL == <<"\n">>

\* first segment: prefix and a number, or prefix and a range NNN>MMM
UgcFirstSegment(in) ==
    in.pre \o Digits3(in.lo)
        \o (IF in.span = NoRange THEN <<>>
            ELSE <<">">> \o Digits3(in.lo + in.span))
\* continuation segments
UgcContinuation(in) ==
    CASE in.cont = "none" -> <<>>
      [] in.cont = "bare" -> <<"-">> \o Digits3(in.contNum)
      [] in.cont = "range" ->
             <<"-">> \o Digits3(in.contNum) \o <<">">> \o Digits3(in.contNum + 1)
      [] in.cont = "prefixed" -> <<"-", "M", "O", "Z">> \o Digits3(in.contNum)
\* the header without its timestamp, and the whole header line
UgcSegments(in) == UgcFirstSegment(in) \o UgcContinuation(in)
UgcHeaderLine(in) == UgcSegments(in) \o in.ts
\* the product text around the header line
UgcMessage(in) ==
    CASE in.lead = "none" -> UgcHeaderLine(in)
      [] in.lead = "wmo" ->
             <<"W", "O", "C", "U", "S", "4", "3", " ", "K", "D", "M", "X", " ", "2", "1", "2", "2", "5", "4">> \o NL \o <<"S", "V", "S", "D", "M", "X">> \o NL
                 \o UgcHeaderLine(in) \o NL
                 \o <<"/", "O", ".", "N", "E", "W", ".", "K", "D", "M", "X", ".", "S", "V", ".", "W", ".", "0", "0", "3", "0", ".", "2", "4", "0", "5", "2", "1", "T", "2", "2", "5", "4", "Z", "-", "2", "4", "0", "5", "2", "1", "T", "2", "3", "3", "0", "Z", "/">> \o NL
                 \o <<"B", "U", "L", "L", "E", "T", "I", "N">>
      [] in.lead = "slash" ->
             <<"/", "K", "Y", "Z", "0", "0", "9", "-">> \o NL \o <<" ", " ">> \o UgcHeaderLine(in) \o <<" ">> \o NL

UgcInputShapes ==
    [ pre : {<<"I", "A", "C">>, <<"A", "R", "Z">>},
      lo : ZoneBases,
      span : {NoRange} \cup ((0 - 1)..MaxSpan),
      cont : {"none", "bare", "range", "prefixed"},
      contNum : {3, 7},
      ts : {<<>>, <<"-">>, <<"-", "2", "2", "0", "0", "0", "0", "-">>, <<"-", "2", "2", "0", "0", "0", "0">>, <<"-", "2", "4", "0", "5", "2", "1", "2", "2", "-">>,
            <<"-", "2", "4", "0", "5", "2", "1", "2", "2", "0", "0", "-">>},
      lead : {"none", "wmo", "slash"} ]

UgcInputs ==
    { in \in UgcInputShapes : in.span = NoRange \/ in.lo + in.span >= 0 }

UgcNoInput == [lead |-> "absent"]
VtecNoInput == [wrap |-> "none"]
VtecIdle == [called |-> FALSE, vtec |-> NullObj]
UgcIdle == [called |-> "none", header |-> NULL, zones |-> <<>>, ugc |-> NullObj]
ParseNoInput == [case |-> "absent"]
ParseIdle == [called |-> "none"]
NoEnv == [WEBHOOK_URL |-> NULL, UGC_FILTER_CODES |-> NULL]

\* the variables of a specification that is not the one running
UgcAtRest == ugcIn = UgcNoInput /\ ugcOut = UgcIdle
VtecAtRest == vtecIn = VtecNoInput /\ vtecOut = VtecIdle
ParseAtRest == parseIn = ParseNoInput /\ parseOut = ParseIdle
PipelineAtRest == env = NoEnv /\ received = 0 /\ handlers = <<>> /\ sent = <<>>
ClientAtRest ==
    /\ configured = FALSE /\ client = "null" /\ created = 0
    /\ reconnectionTimeout = 0
    /\ initialConnection = FALSE /\ reconnectTimerId = 0 /\ timers = {}
    /\ attempts = <<>>

\* a caller of ugcParser.getUgc(rawText)
CallGetUgc ==
    /\ ugcOut.called = "none"
    /\ ugcOut' = [called |-> "getUgc",
                  header |-> getHeader(UgcMessage(ugcIn)),
                  zones |-> <<>>,
                  ugc |-> getUgc(UgcMessage(ugcIn))]
    /\ UNCHANGED <<ugcIn, vtecVars, parseVars, pipelineVars, clientVars>>

\* a caller of ugcParser.getZones(header) on the header segments
CallGetZones ==
    /\ ugcOut.called = "none"
    /\ ugcOut' = [called |-> "getZones",
                  header |-> UgcSegments(ugcIn),
                  zones |-> getZones(UgcSegments(ugcIn)),
                  ugc |-> NullObj]
    /\ UNCHANGED <<ugcIn, vtecVars, parseVars, pipelineVars, clientVars>>

UgcInit ==
    /\ ugcIn \in UgcInputs
    /\ ugcOut = UgcIdle
    /\ VtecAtRest
    /\ ParseAtRest
    /\ PipelineAtRest
    /\ ClientAtRest

UgcNext == CallGetUgc \/ CallGetZones

SpecUgc == UgcInit /\ [][UgcNext]_vars

-----------------------------------------------------------------------------
(* Properties of the UGC decoder, checked under SpecUgc *)

ZoneCodeShape == <<Upper, Upper, {"C", "Z"}, Digit, Digit, Digit>>

\* C8: for a header segment made of a state+format prefix and a range
\* NNN>MMM with NNN <= MMM, getZones emits exactly MMM-NNN+1 zone codes for
\* it, one per number from NNN to MMM in ascending order, each the prefix
\* followed by the number zero-padded to three digits (six characters); a
\* bare range that follows expands the same way under the same prefix.
C8_RangeExpansion ==
    (ugcOut.called = "getZones" /\ ugcIn.span # NoRange /\ ugcIn.span >= 0) =>
        LET n == ugcIn.span + 1
            zones == ugcOut.zones
            after == CASE ugcIn.cont = "none" -> 0
                       [] ugcIn.cont = "range" -> 2
                       [] OTHER -> 1
        IN  /\ Len(zones) = n + after
            /\ \A k \in 1..n :
                   /\ zones[k] = ugcIn.pre \o Digits3(ugcIn.lo + k - 1)
                   /\ Len(zones[k]) = 6
            /\ ugcIn.cont = "range" =>
                   /\ zones[n + 1] = ugcIn.pre \o Digits3(ugcIn.contNum)
                   /\ zones[n + 2] = ugcIn.pre \o Digits3(ugcIn.contNum + 1)

\* a range that crosses from one digit to two (008>011) has been expanded
C8_Witness ==
    /\ ugcOut.called = "getZones"
    /\ ugcIn.lo = 8
    /\ ugcIn.span = MaxSpan
    /\ ugcIn.cont = "none"
    /\ Len(ugcOut.zones) = MaxSpan + 1

\* C9: getUgc on a text whose UGC header line is IAC001-003-220000- returns
\* exactly the zones IAC001, IAC003 (the timestamp is stripped, never a
\* zone), and on ARZ001>003-007- exactly ARZ001, ARZ002, ARZ003, ARZ007.
C9_Scenarios ==
    ugcOut.called = "getUgc" =>
        /\ UgcHeaderLine(ugcIn) = <<"I", "A", "C", "0", "0", "1", "-", "0", "0", "3", "-", "2", "2", "0", "0", "0", "0", "-">> =>
               ugcOut.ugc = [zones |-> << <<"I", "A", "C", "0", "0", "1">>, <<"I", "A", "C", "0", "0", "3">> >>]
        /\ UgcHeaderLine(ugcIn) = <<"A", "R", "Z", "0", "0", "1", ">", "0", "0", "3", "-", "0", "0", "7", "-">> =>
               ugcOut.ugc = [zones |-> << <<"A", "R", "Z", "0", "0", "1">>, <<"A", "R", "Z", "0", "0", "2">>, <<"A", "R", "Z", "0", "0", "3">>,
                                          <<"A", "R", "Z", "0", "0", "7">> >>]

\* getUgc has answered for the header line of Scenario 2 inside a product
C9_Witness ==
    /\ ugcOut.called = "getUgc"
    /\ ugcIn.lead = "wmo"
    /\ UgcHeaderLine(ugcIn) = <<"I", "A", "C", "0", "0", "1", "-", "0", "0", "3", "-", "2", "2", "0", "0", "0", "0", "-">>
    /\ ugcOut.ugc # NullObj

\* C10: every zone code of a non-null getUgc result is six characters: two
\* upper-case letters, C or Z, three digits, whatever timestamp form
\* (-DDHHMM- or -YYMMDDHHMM-) ends the header line.
C10_ZoneShape ==
    (ugcOut.called = "getUgc" /\ ugcOut.ugc # NullObj) =>
        \A k \in 1..Len(ugcOut.ugc.zones) :
            /\ Len(ugcOut.ugc.zones[k]) = 6
            /\ MatchesAt(ugcOut.ugc.zones[k], ZoneCodeShape, 1)

-----------------------------------------------------------------------------
(* SpecVtec: the VTEC decoder applied to product texts built from components *)

\* the P-VTEC string between the slashes
VtecString(in) ==
    in.cls \o <<".">> \o in.action \o <<".">> \o in.office \o <<".">> \o in.phen
        \o <<".">> \o in.sig \o <<".">> \o in.etn \o <<".">> \o in.start
        \o <<"-">> \o in.end
\* the product text around it
VtecMessage(in) ==
    CASE in.wrap = "bare" -> <<"/">> \o VtecString(in) \o <<"/">>
      [] in.wrap = "product" ->
             <<"W", "U", "U", "S", "5", "3", " ", "K", "D", "M", "X", " ", "2", "1", "2", "2", "5", "4">> \o NL \o <<"S", "V", "R", "D", "M", "X">> \o NL
                 \o <<"I", "A", "C", "0", "0", "1", "-", "0", "0", "3", "-", "2", "1", "2", "3", "3", "0", "-">> \o NL
                 \o <<"/">> \o VtecString(in) \o <<"/">> \o NL \o <<"B", "U", "L", "L", "E", "T", "I", "N">>
      [] in.wrap = "noslash" -> VtecString(in)

VtecInputs ==
    [ cls : {<<"O">>},
      action : {<<"N", "E", "W">>, <<"C", "O", "N">>, <<"X", "Y", "Z">>},
      office : {<<"K", "D", "M", "X">>, <<"K", "D">>, <<"K", "1">>},
      phen : {<<"S", "V">>, <<"T", "O">>, <<"Z", "Z">>},
      sig : {<<"W">>, <<"A">>, <<"Q">>},
      etn : {<<"0", "0", "3", "0">>, <<"0", "0", "0", "1">>},
      start : {<<"2", "4", "0", "5", "2", "1", "T", "2", "2", "5", "4", "Z">>, <<"0", "0", "0", "0", "0", "0", "T", "0", "0", "0", "0", "Z">>},
      end : {<<"2", "4", "0", "5", "2", "1", "T", "2", "3", "3", "0", "Z">>, <<"2", "4", "0", "5", "2", "2", "T", "0", "0", "1", "5", "Z">>},
      wrap : {"bare", "product", "noslash"} ]

\* a caller of vtecParser.getVtec(rawText)
CallGetVtec ==
    /\ vtecIn.wrap # "date"
    /\ ~vtecOut.called
    /\ vtecOut' = [called |-> TRUE, vtec |-> getVtec(VtecMessage(vtecIn))]
    /\ UNCHANGED <<vtecIn, ugcVars, parseVars, pipelineVars, clientVars>>

\* time strings handed to formatVtecDate alone: the times of the P-VTEC
\* strings above, and strings of other lengths and shapes
DateChoices ==
    { <<"2", "4", "0", "5", "2", "1", "T", "2", "2", "5", "4", "Z">>, <<"2", "4", "0", "5", "2", "1", "T", "2", "3", "3", "0", "Z">>, <<"0", "0", "0", "0", "0", "0", "T", "0", "0", "0", "0", "Z">>, <<"2", "4", "0", "5", "2", "2", "T", "0", "0", "1", "5", "Z">>,
      <<"2", "4", "0", "5", "2", "1", "T", "2", "2", "5", "4", "0", "Z">>, <<"2", "4", "0", "5", "2", "1", "0", "T", "2", "2", "5", "4", "Z">>, <<"A", "B", "C", "D", "E", "F", "T", "G", "H", "I", "J", "K", "Z">>,
      <<"2", "4", "0", "5", "2", "1", "T", "2", "2", "5", "4", "0", "0">>, <<"2", "4", "0", "5", "2", "1", "1", "T", "2", "2", "5", "4", "Z">>, <<"2", "4", "0", "5", "2", "1", "T", "2", "2", "5", "4">>,
      <<"2", "0", "2", "4", "0", "5", "2", "1", "T", "2", "2", "5", "4", "Z">>, <<"2", "0", "2", "4", "-", "0", "5", "-", "2", "1", "T", "2", "2", ":", "5", "4", ":", "0", "0", "Z">>, <<>> }
DateInputs == { [wrap |-> "date", date |-> d] : d \in DateChoices }

\* a caller of vtecParser.formatVtecDate(vtecDateStr)
CallFormatVtecDate ==
    /\ vtecIn.wrap = "date"
    /\ "formatted" \notin DOMAIN vtecOut
    /\ vtecOut' = [called |-> FALSE, vtec |-> NullObj,
                   formatted |-> formatVtecDate(vtecIn.date)]
    /\ UNCHANGED <<vtecIn, ugcVars, parseVars, pipelineVars, clientVars>>

VtecInit ==
    /\ vtecIn \in VtecInputs \cup DateInputs
    /\ vtecOut = VtecIdle
    /\ UgcAtRest
    /\ ParseAtRest
    /\ PipelineAtRest
    /\ ClientAtRest

VtecNext == CallGetVtec \/ CallFormatVtecDate

SpecVtec == VtecInit /\ [][VtecNext]_vars

-----------------------------------------------------------------------------
(* Properties of the VTEC decoder, checked under SpecVtec *)

\* C6: for a text containing
\* /O.NEW.KDMX.SV.W.0030.240521T2254Z-240521T2330Z/ getVtec returns a
\* non-null record with action New, officeId KDMX, phenomena Severe
\* Thunderstorm Warning, significance Warning, eventTrackingNumber 0030 and
\* startTime 2024-05-21T22:54:00Z.
C6_Scenario1 ==
    ( /\ vtecOut.called
      /\ vtecIn.wrap # "noslash"
      /\ VtecString(vtecIn) = <<"O", ".", "N", "E", "W", ".", "K", "D", "M", "X", ".", "S", "V", ".", "W", ".", "0", "0", "3", "0", ".", "2", "4", "0", "5", "2", "1", "T", "2", "2", "5", "4", "Z", "-", "2", "4", "0", "5", "2", "1", "T", "2", "3", "3", "0", "Z">> )
    =>  /\ vtecOut.vtec # NullObj
        /\ vtecOut.vtec.action = <<"N", "e", "w">>
        /\ vtecOut.vtec.officeId = <<"K", "D", "M", "X">>
        /\ vtecOut.vtec.phenomena = <<"S", "e", "v", "e", "r", "e", " ", "T", "h", "u", "n", "d", "e", "r", "s", "t", "o", "r", "m", " ", "W", "a", "r", "n", "i", "n", "g">>
        /\ vtecOut.vtec.significance = <<"W", "a", "r", "n", "i", "n", "g">>
        /\ vtecOut.vtec.eventTrackingNumber = <<"0", "0", "3", "0">>
        /\ vtecOut.vtec.startTime = <<"2", "0", "2", "4", "-", "0", "5", "-", "2", "1", "T", "2", "2", ":", "5", "4", ":", "0", "0", "Z">>

\* C7: for every text containing a match of the VTEC pattern, getVtec
\* returns a non-null record whose officeId is the office segment and whose
\* eventTrackingNumber is the four-digit ETN segment, verbatim.
C7_RoundTrip ==
    (vtecOut.called /\ FirstMatch(VtecMessage(vtecIn), vtec_regexp) # 0) =>
        /\ vtecOut.vtec # NullObj
        /\ vtecOut.vtec.officeId = vtecIn.office
        /\ vtecOut.vtec.eventTrackingNumber = vtecIn.etn

-----------------------------------------------------------------------------
(* rawParser.js: class RawParser *)

\* result.replace(/^[\s.:]+/, '')
StripLeadingLabelJunk(s) ==
    LET keep == {i \in 1..Len(s) : s[i] \notin WhiteSpace \cup {".", ":"}}
    IN  IF keep = {} THEN <<>> ELSE SubSeq(s, MinOf(keep), Len(s))

\* what follows searchString on the line that holds it
RestOfLine(line, searchString) ==
    Trim(StripLeadingLabelJunk(
             SubstringFrom(line, IndexOf(ToLowerCase(line), ToLowerCase(searchString))
                                     + Len(searchString))))
FirstLineOf(lines, hits, searchString) ==
    IF hits = {} THEN NULL ELSE RestOfLine(lines[MinOf(hits)], searchString)
FirstLineWith(lines, searchString) ==
    FirstLineOf(lines,
                {i \in 1..Len(lines) :
                    Includes(ToLowerCase(lines[i]), ToLowerCase(searchString))},
                searchString)
\* getStringByLine(message, searchString)
getStringByLine(message, searchString) ==
    IF ~Truthy(message) \/ ~Truthy(searchString) THEN NULL
    ELSE FirstLineWith(Split(message, "\n"), searchString)

\* a || b
OrElse(a, b) == IF Truthy(a) THEN a ELSE b

\* getOfficeName(message)
getOfficeName(message) ==
    IF ~Truthy(message) THEN NULL
    ELSE OrElse(getStringByLine(message, <<"N", "a", "t", "i", "o", "n", "a", "l", " ", "W", "e", "a", "t", "h", "e", "r", " ", "S", "e", "r", "v", "i", "c", "e", " ">>),
                OrElse(getStringByLine(message, <<"N", "W", "S", " ", "S", "T", "O", "R", "M", " ", "P", "R", "E", "D", "I", "C", "T", "I", "O", "N", " ", "C", "E", "N", "T", "E", "R", " ">>),
                       NULL))

\* the text captured by /LAT\.\.\.LON\s+(([\s\S]*?)(?:\n\n|$$))/i, trimmed:
\* from the first LAT...LON that white space follows, past that white space,
\* up to the next empty line or the end of the text; NULL without a match
LatLonBlockBetween(message, from, ends) ==
    Trim(SubSeq(message, from, IF ends = {} THEN Len(message) ELSE MinOf(ends) - 1))
LatLonBlockFrom(message, from) ==
    LatLonBlockBetween(message, from,
        {j \in from..(Len(message) - 1) : message[j] = "\n" /\ message[j + 1] = "\n"})
LatLonBlockPast(message, solid) ==
    LatLonBlockFrom(message, IF solid = {} THEN Len(message) + 1 ELSE MinOf(solid))
LatLonBlockAt(message, hits) ==
    IF hits = {} THEN NULL
    ELSE LatLonBlockPast(message,
             {j \in (MinOf(hits) + 10)..Len(message) : message[j] \notin WhiteSpace})
LatLonBlock(message) ==
    LatLonBlockAt(message,
        {i \in 0..(Len(message) - 10) :
            /\ OccursAt(ToUpperCase(message), <<"L", "A", "T", ".", ".", ".", "L", "O", "N">>, i)
            /\ message[i + 10] \in WhiteSpace})

\* the ring is closed when it has more than two pairs and its ends differ
ClosedRing(coordinates) ==
    IF /\ Len(coordinates) > 2
       /\ \/ NumDiffers(coordinates[1][1], coordinates[Len(coordinates)][1])
          \/ NumDiffers(coordinates[1][2], coordinates[Len(coordinates)][2])
    THEN Append(coordinates, coordinates[1])
    ELSE coordinates
\* parseFloat(text) / 100, and -1 * (parseFloat(text) / 100)
LonLatPair(lat, lon) ==
    << [nan |-> FALSE, val |-> 0 - (lon.val \div 100)],
       [nan |-> FALSE, val |-> lat.val \div 100] >>
PairsAt(coordStrings, good) ==
    [n \in 1..Cardinality(good) |->
        LonLatPair(ParseFloat(coordStrings[2 * KthOf(good, n) - 1]),
                   ParseFloat(coordStrings[2 * KthOf(good, n)]))]
PairsOfWords(coordStrings) ==
    PairsAt(coordStrings,
            {k \in 1..(Len(coordStrings) \div 2) :
                /\ ~ParseFloat(coordStrings[2 * k - 1]).nan
                /\ ~ParseFloat(coordStrings[2 * k]).nan})
PolygonOfBlock(block) ==
    IF ~Truthy(block) THEN <<>> ELSE ClosedRing(PairsOfWords(Words(block)))
\* getPolygonCoordinatesByText(message): [lon, lat] pairs
getPolygonCoordinatesByText(message) ==
    IF ~Truthy(message) THEN <<>> ELSE PolygonOfBlock(LatLonBlock(message))

-----------------------------------------------------------------------------
(* alertParser.js: parseCapAlertDetails *)

\* A CAP alert is a record [shape, xmlns, sender, sent, status, msgType,
\* scope, info]; shape "xml2js" is the plain object xml2js builds, shape
\* "xmpp" an @xmpp/xml element tree. A child that is absent is UNDEFINED; a
\* child that xml2js turns into an object (it carries attributes) is OBJECT.

InfoTextFields ==
    {"event", "urgency", "severity", "certainty", "effective", "onset",
     "expires", "headline", "description", "instruction"}

\* obj[name] of an xml2js object, getChildText(name) of an element
ChildText(shape, v) == IF shape = "xmpp" /\ v = UNDEFINED THEN NULL ELSE v

\* value.split(/\\s+/): the separator is a backslash followed by one or
\* more letters s
RECURSIVE SplitBackslashS(_)
SplitBackslashS(value) ==
    LET hits == {i \in 1..(Len(value) - 1) : value[i] = "\\" /\ value[i + 1] = "s"}
    IN  IF hits = {} THEN <<value>>
        ELSE LET at == MinOf(hits)
                 notS == {j \in (at + 1)..Len(value) : value[j] # "s"}
                 next == IF notS = {} THEN Len(value) + 1 ELSE MinOf(notS)
             IN  <<SubSeq(value, 1, at - 1)>>
                     \o SplitBackslashS(SubSeq(value, next, Len(value)))

\* codes.forEach(code => { if (code && !capUgcCodes.includes(code)) push })
\* over all candidate codes in document order
PushNewCodes(codes) ==
    AtPositions(codes,
        {i \in 1..Len(codes) :
            codes[i] # <<>> /\ \A j \in 1..(i - 1) : codes[j] # codes[i]})

\* variant of FirstWins in which every block that has the field overwrites
FirstWinsOverwritten(values) ==
    LET truthy == {i \in 1..Len(values) : Truthy(values[i])}
    IN  IF truthy # {} THEN values[MaxOf(truthy)]
        ELSE IF Len(values) = 0 THEN UNDEFINED ELSE values[Len(values)]

\* if (!details[f]) details[f] = infoData[f], over the info blocks in order
FirstWins(values) ==
    LET truthy == {i \in 1..Len(values) : Truthy(values[i])}
    IN  IF truthy # {} THEN values[MinOf(truthy)]
        ELSE IF Len(values) = 0 THEN UNDEFINED ELSE values[Len(values)]

\* Array.isArray(x) ? x : [x].filter(Boolean), for entries that are strings
AsArray(entries) ==
    IF Len(entries) = 1 /\ ~Truthy(entries[1]) THEN <<>> ELSE entries

\* the UGC codes one geocode or parameter entry contributes
EntryCodes(shape, entry, names) ==
    LET valueName == ChildText(shape, entry.valueName)
        value == ChildText(shape, entry.value)
    IN  IF Truthy(valueName) /\ Truthy(value) /\ ToUpperCase(valueName) \in names
        THEN SplitBackslashS(value) ELSE <<>>
\* the entry makes valueName.toUpperCase() or value.split() fail
EntryThrows(entry, names) ==
    /\ Truthy(entry.valueName)
    /\ Truthy(entry.value)
    /\ \/ entry.valueName = OBJECT
       \/ ToUpperCase(entry.valueName) \in names /\ entry.value = OBJECT
\* the messages of the errors a list of entries raises, in order
EntryErrors(entries, names) ==
    Flatten([k \in 1..Len(entries) |->
                IF EntryThrows(entries[k], names)
                THEN <<"TypeError: not a function">> ELSE <<>>])

GeocodeNames == { <<"U", "G", "C">>, <<"F", "I", "P", "S", "6">> }
ParameterNames == { <<"U", "G", "C">> }

\* a polygon entry that is not a non-empty string reaches
\* logger.warn({ alertId: id, ... }), where no id is in scope
PolygonErrors(polygonStrings) ==
    Flatten([k \in 1..Len(polygonStrings) |->
                IF Truthy(polygonStrings[k]) /\ IsString(polygonStrings[k])
                THEN <<>> ELSE <<"ReferenceError: id is not defined">>])

\* parseCapAlertDetails(capAlertElement, logger): [threw, error, details]
parseCapAlertDetails(capAlertElement) ==
    IF capAlertElement = NullObj
    THEN [threw |-> FALSE, error |-> "", details |-> <<>>]
    ELSE
    LET shape == capAlertElement.shape
        isXmlJs == shape = "xml2js"
        infoBlocks == capAlertElement.info
        AllAreas == Flatten([i \in 1..Len(infoBlocks) |-> infoBlocks[i].area])
        PolygonStrings(area) == IF isXmlJs THEN AsArray(area.polygon) ELSE area.polygon
        AreaCodes(area) ==
            Flatten([g \in 1..Len(area.geocode) |->
                        EntryCodes(shape, area.geocode[g], GeocodeNames)])
        InfoCodes(info) ==
            Flatten([a \in 1..Len(info.area) |-> AreaCodes(info.area[a])])
                \o Flatten([q \in 1..Len(info.parameter) |->
                               EntryCodes(shape, info.parameter[q], ParameterNames)])
        KeptPolygons(area) ==
            LET ps == PolygonStrings(area)
                kept == {k \in 1..Len(ps) : Truthy(ps[k]) /\ IsString(ps[k])}
            IN  [n \in 1..Cardinality(kept) |-> Trim(ps[KthOf(kept, n)])]
        areaDescs == [a \in 1..Len(AllAreas) |-> ChildText(shape, AllAreas[a].areaDesc)]
        senderNames == [i \in 1..Len(infoBlocks) |-> infoBlocks[i].senderName]
        InfoParameters(info) ==
            LET valid == {q \in 1..Len(info.parameter) :
                             /\ Truthy(info.parameter[q].valueName)
                             /\ Truthy(info.parameter[q].value)}
            IN  AtPositions(info.parameter, valid)
        top == [ capPolygons |->
                     Flatten([a \in 1..Len(AllAreas) |-> KeptPolygons(AllAreas[a])]),
                 capUgcCodes |->
                     PushNewCodes(Flatten([i \in 1..Len(infoBlocks) |->
                                              InfoCodes(infoBlocks[i])])),
                 sender |-> ChildText(shape, capAlertElement.sender),
                 sent |-> ChildText(shape, capAlertElement.sent),
                 status |-> ChildText(shape, capAlertElement.status),
                 msgType |-> ChildText(shape, capAlertElement.msgType),
                 scope |-> ChildText(shape, capAlertElement.scope) ]
        fromInfo ==
            IF Len(infoBlocks) = 0 THEN <<>>
            ELSE [f \in InfoTextFields |->
                     FirstWins([i \in 1..Len(infoBlocks) |->
                                   ChildText(shape, infoBlocks[i][f])])]
        senderName ==
            IF isXmlJs /\ \E i \in 1..Len(senderNames) : Truthy(senderNames[i])
            THEN [senderName |-> FirstWins(senderNames)] ELSE <<>>
        areaDesc ==
            IF \E a \in 1..Len(areaDescs) : Truthy(areaDescs[a])
            THEN [areaDesc |-> FirstWins(areaDescs)] ELSE <<>>
        parameters ==
            IF isXmlJs /\ Len(infoBlocks) = 0 THEN <<>>
            ELSE [parameters |->
                     Flatten([i \in 1..Len(infoBlocks) |->
                                 InfoParameters(infoBlocks[i])])]
        AreaErrors(area) ==
            EntryErrors(area.geocode, GeocodeNames)
                \o PolygonErrors(PolygonStrings(area))
        InfoErrors(info) ==
            Flatten([a \in 1..Len(info.area) |-> AreaErrors(info.area[a])])
                \o EntryErrors(info.parameter, ParameterNames)
        errors ==
            IF isXmlJs
            THEN Flatten([i \in 1..Len(infoBlocks) |-> InfoErrors(infoBlocks[i])])
            ELSE <<>>
    IN  IF Len(errors) > 0
        THEN [threw |-> TRUE, error |-> errors[1], details |-> <<>>]
        ELSE [threw |-> FALSE, error |-> "",
              details |-> top @@ fromInfo @@ senderName @@ areaDesc @@ parameters]

-----------------------------------------------------------------------------
(* alertParser.js: parseAlert *)

\* the ring of the first CAP polygon string: "lat,lon lat,lon ..." becomes
\* [lon, lat] pairs, closed when the last pair differs from the first
CapPolygonRing(firstPolygonString) ==
    LET Part(pairStr, n) ==
            IF n <= Len(Split(pairStr, ",")) THEN Split(pairStr, ",")[n]
            ELSE UNDEFINED
        Closed(coordinatePairs, last) ==
            IF \/ NumDiffers(coordinatePairs[1][1], last[1])
               \/ NumDiffers(coordinatePairs[1][2], last[2])
            THEN Append(coordinatePairs, coordinatePairs[1])
            ELSE coordinatePairs
        Ring(coordinatePairs) ==
            Closed(coordinatePairs, coordinatePairs[Len(coordinatePairs)])
        Pairs(pairStrs) ==
            [k \in 1..Len(pairStrs) |->
                << ParseFloat(Part(pairStrs[k], 2)),
                   ParseFloat(Part(pairStrs[k], 1)) >>]
    IN  Ring(Pairs(Split(firstPolygonString, " ")))

\* alertData.geometry: the CAP polygon when its ring has four pairs or more,
\* else the LAT...LON block of the raw text, else null
AlertGeometry(capDetails, rawText) ==
    LET capPolygons == IF "capPolygons" \in DOMAIN capDetails
                       THEN capDetails.capPolygons ELSE <<>>
        Geometry(ring, polygonFromRaw) ==
            IF Len(capPolygons) > 0 /\ Len(ring) >= 4
            THEN [type |-> "Polygon", coordinates |-> <<ring>>]
            ELSE IF Len(polygonFromRaw) > 0
            THEN [type |-> "Polygon", coordinates |-> <<polygonFromRaw>>]
            ELSE NullObj
    IN  Geometry(IF Len(capPolygons) > 0 THEN CapPolygonRing(capPolygons[1])
                 ELSE <<>>,
                 getPolygonCoordinatesByText(rawText))

\* variant of parseAlertCatch that lets the error escape
parseAlertRethrow(attempt, alertData) == attempt

\* the catch block of parseAlert: the error message is stored on the record
\* built so far and that record is returned
parseAlertCatch(attempt, alertData) ==
    IF attempt.threw
    THEN [threw |-> FALSE, error |-> "",
          value |-> [error |-> attempt.error] @@ alertData]
    ELSE attempt

\* variant of AlertUgc that prefers the UGC line of the raw text
AlertUgcRawFirst(capUgcCodes, ugcFromRaw) ==
    IF ugcFromRaw # NullObj THEN [ugc |-> ugcFromRaw]
    ELSE IF Len(capUgcCodes) > 0
    THEN [ugc |-> [zones |-> capUgcCodes,
                   full_ugc_string |-> Join(capUgcCodes, <<" ">>)]]
    ELSE <<>>

\* alertData.ugc: the codes of the CAP details when there are any, else
\* what ugcParser.getUgc finds in the raw text; no key when neither
AlertUgc(capUgcCodes, ugcFromRaw) ==
    IF Len(capUgcCodes) > 0
    THEN [ugc |-> [zones |-> capUgcCodes,
                   full_ugc_string |-> Join(capUgcCodes, <<" ">>)]]
    ELSE IF ugcFromRaw # NullObj THEN [ugc |-> ugcFromRaw] ELSE <<>>

\* parseAlert(rawText, id, capAlertElement, logger): [threw, error, value]
parseAlert(rawText, id, capAlertElement) ==
    LET Started(vtec) ==
            (IF vtec # NullObj THEN [vtec |-> vtec] ELSE <<>>)
                @@ [id |-> id, source |-> "nwws-oi", raw_product_text |-> rawText]
        CapUgcCodes(capDetails) ==
            IF "capUgcCodes" \in DOMAIN capDetails
            THEN capDetails.capUgcCodes ELSE <<>>
        \* for (const key in capDetails): every key but capUgcCodes that
        \* alertData does not hold yet
        Merged(started, capDetails, ugc) ==
            (ugc @@ started)
                @@ [key \in DOMAIN capDetails \ {"capUgcCodes"} |-> capDetails[key]]
        WithOffice(merged) == [issuingOffice |-> getOfficeName(rawText)] @@ merged
        IsCancel(withOffice) ==
            /\ "cap" \in DOMAIN withOffice
            /\ Truthy(Get(withOffice.cap, "msgType"))
            /\ ToLowerCase(withOffice.cap.msgType) = <<"c", "a", "n", "c", "e", "l">>
        Event(vtec, capDetails) ==
            IF Truthy(Get(capDetails, "event")) THEN capDetails.event
            ELSE IF vtec # NullObj THEN vtec.phenomena ELSE <<"U", "n", "k", "n", "o", "w", "n", " ", "E", "v", "e", "n", "t">>
        Severity(vtec, capDetails) ==
            IF Truthy(Get(capDetails, "severity")) THEN capDetails.severity
            ELSE IF vtec # NullObj THEN vtec.significance ELSE <<"U", "n", "k", "n", "o", "w", "n">>
        Finished(capDetails, withOffice, event, severity) ==
            [ geometry |-> AlertGeometry(capDetails, rawText),
              event |-> event,
              severity |-> severity,
              headline |-> Get(capDetails, "headline"),
              description |-> Get(capDetails, "description"),
              instruction |-> Get(capDetails, "instruction"),
              affectedAreasDescription |-> Get(capDetails, "areaDesc") ]
                @@ withOffice
        Attempt(cap, withOffice, event, severity) ==
            IF cap.threw THEN [threw |-> TRUE, error |-> cap.error, value |-> NullObj]
            ELSE IF IsCancel(withOffice)
            THEN [threw |-> FALSE, error |-> "", value |-> NullObj]
            ELSE IF Truthy(event) /\ event \in ignored_event_names
            THEN [threw |-> FALSE, error |-> "", value |-> NullObj]
            ELSE [threw |-> FALSE, error |-> "",
                  value |-> Finished(cap.details, withOffice, event, severity)]
        WithCap(vtec, started, cap) ==
            parseAlertCatch(
                Attempt(cap,
                        WithOffice(Merged(started, cap.details,
                                          AlertUgc(CapUgcCodes(cap.details),
                                                   getUgc(rawText)))),
                        Event(vtec, cap.details),
                        Severity(vtec, cap.details)),
                started)
        WithVtec(vtec) ==
            WithCap(vtec, Started(vtec), parseCapAlertDetails(capAlertElement))
    IN  WithVtec(getVtec(rawText))

-----------------------------------------------------------------------------
(* categorizer/index.js: categorizeMessage *)

\* A raw text is a record [text, xml]: text is the product text that the
\* line and pattern scans read, xml what the text holds from "<?xml" on:
\* [kind |-> "none"], [kind |-> "malformed"] (xml2js rejects it),
\* [kind |-> "other"] (its root is no alert) or a CAP alert of shape xml2js.
\* A stanza is NullObj or a record whose field alert is the alert element
\* (shape xmpp) found among its descendants, or NullObj.

NoXml == [kind |-> "none"]
RawTruthy(rawText) == Truthy(rawText.text) \/ rawText.xml.kind # "none"

IGNORED_EVENT_TYPES ==
    { <<"T", "e", "s", "t", " ", "M", "e", "s", "s", "a", "g", "e">>, <<"S", "m", "a", "l", "l", " ", "C", "r", "a", "f", "t", " ", "A", "d", "v", "i", "s", "o", "r", "y">>, <<"S", "e", "v", "e", "r", "e", " ", "T", "h", "u", "n", "d", "e", "r", "s", "t", "o", "r", "m", " ", "W", "a", "t", "c", "h">> }

\* variant of findCapAlert that accepts the CAP 1.2 namespace only
findCapAlertExact(element) ==
    IF element = NullObj \/ element.alert = NullObj THEN NullObj
    ELSE IF element.alert.xmlns = <<"u", "r", "n", ":", "o", "a", "s", "i", "s", ":", "n", "a", "m", "e", "s", ":", "t", "c", ":", "e", "m", "e", "r", "g", "e", "n", "c", "y", ":", "c", "a", "p", ":", "1", ".", "2">>
    THEN element.alert
    ELSE NullObj

\* findCapAlert(element)
findCapAlert(element) ==
    IF element = NullObj \/ element.alert = NullObj THEN NullObj
    ELSE IF /\ Truthy(element.alert.xmlns)
            /\ StartsWith(element.alert.xmlns, <<"u", "r", "n", ":", "o", "a", "s", "i", "s", ":", "n", "a", "m", "e", "s", ":", "t", "c", ":", "e", "m", "e", "r", "g", "e", "n", "c", "y", ":", "c", "a", "p", ":">>)
    THEN element.alert
    ELSE NullObj

\* the values of the geocodes named exactly UGC, over every info and area
AlertUgcCodes(actualCapData) ==
    LET areas == Flatten([i \in 1..Len(actualCapData.info) |->
                             actualCapData.info[i].area])
        geos == Flatten([a \in 1..Len(areas) |-> areas[a].geocode])
        named == {g \in 1..Len(geos) :
                     geos[g].valueName = <<"U", "G", "C">> /\ Truthy(geos[g].value)}
    IN  [n \in 1..Cardinality(named) |-> geos[KthOf(named, n)].value]

\* variant of EnvUgcFilter that lets an alert without UGC codes pass
EnvUgcFilterLenient(actualCapData, ugcFilterCodesEnv) ==
    IF ~Truthy(ugcFilterCodesEnv) THEN "pass"
    ELSE
    LET split == Split(ugcFilterCodesEnv, ",")
        filterCodes == {Trim(split[k]) : k \in 1..Len(split)}
        alertUgcCodes == AlertUgcCodes(actualCapData)
        hasMatchingUgc ==
            \E k \in 1..Len(alertUgcCodes) : alertUgcCodes[k] \in filterCodes
    IN  IF ~hasMatchingUgc /\ Len(alertUgcCodes) > 0 THEN "cap_alert_filtered_ugc"
        ELSE "pass"

\* the UGC filter of the environment variable UGC_FILTER_CODES: the category
\* it returns, or "pass"
EnvUgcFilter(actualCapData, ugcFilterCodesEnv) ==
    IF ~Truthy(ugcFilterCodesEnv) THEN "pass"
    ELSE
    LET split == Split(ugcFilterCodesEnv, ",")
        filterCodes == {Trim(split[k]) : k \in 1..Len(split)}
        alertUgcCodes == AlertUgcCodes(actualCapData)
        hasMatchingUgc ==
            \E k \in 1..Len(alertUgcCodes) : alertUgcCodes[k] \in filterCodes
    IN  IF ~hasMatchingUgc /\ Len(alertUgcCodes) > 0 THEN "cap_alert_filtered_ugc"
        ELSE IF Len(alertUgcCodes) = 0 THEN "cap_alert_filtered_ugc_no_alert_codes"
        ELSE "pass"

\* variant of xmlParseCatch that lets the parse error escape
xmlParseRethrow(xml) == [threw |-> xml.kind = "malformed", parsed |-> xml]

\* try { await xml2jsParser.parseStringPromise(xmlString) ... } catch: a
\* parse error leaves capAlertElement null
xmlParseCatch(xml) ==
    [threw |-> FALSE,
     parsed |-> IF xml.kind = "malformed" THEN NoXml ELSE xml]

\* the first info block's event: a string of the xml2js object, the text of
\* the event element of an element tree; null when there is none
FirstInfoEvent(capAlertElement) ==
    IF Len(capAlertElement.info) = 0 THEN NULL
    ELSE LET event == capAlertElement.info[1].event
         IN  IF IsString(event) THEN event ELSE NULL

\* variant of EventDecision that hands the element back with the ignored
\* event type
EventDecisionKeepingElement(capAlertElement, eventString) ==
    IF Truthy(eventString) /\ eventString \in IGNORED_EVENT_TYPES
    THEN [category |-> "cap_alert_ignored_event_type", eventType |-> eventString,
          capAlertElement |-> capAlertElement]
    ELSE [category |-> "alert", capAlertElement |-> capAlertElement]

\* the result for a CAP alert that was found: ignored by its event type, or
\* an alert
EventDecision(capAlertElement, eventString) ==
    IF Truthy(eventString) /\ eventString \in IGNORED_EVENT_TYPES
    THEN [category |-> "cap_alert_ignored_event_type", eventType |-> eventString,
          capAlertElement |-> NullObj]
    ELSE [category |-> "alert", capAlertElement |-> capAlertElement]

\* categorizeMessage(rawText, id, stanza): [threw, value], value the
\* decision {category, capAlertElement}
categorizeMessage(rawText, id, stanza, ugcFilterCodesEnv) ==
    LET inStanza == findCapAlert(stanza)
        attempt == xmlParseCatch(rawText.xml)
        parsed == attempt.parsed
        isCap12 == parsed.kind = "alert"
                       /\ parsed.xmlns = <<"u", "r", "n", ":", "o", "a", "s", "i", "s", ":", "n", "a", "m", "e", "s", ":", "t", "c", ":", "e", "m", "e", "r", "g", "e", "n", "c", "y", ":", "c", "a", "p", ":", "1", ".", "2">>
        tryRawText == inStanza = NullObj /\ RawTruthy(rawText)
        filtered == IF tryRawText /\ ~attempt.threw /\ isCap12
                    THEN EnvUgcFilter(parsed, ugcFilterCodesEnv) ELSE "pass"
        capAlertElement ==
            IF inStanza # NullObj THEN inStanza
            ELSE IF tryRawText /\ ~attempt.threw /\ isCap12 THEN parsed
            ELSE NullObj
        eventString ==
            IF capAlertElement = NullObj THEN NULL
            ELSE FirstInfoEvent(capAlertElement)
        Decision(category) == [category |-> category, capAlertElement |-> NullObj]
    IN  IF tryRawText /\ attempt.threw
        THEN [threw |-> TRUE, value |-> NullObj]
        ELSE [threw |-> FALSE, value |->
            IF filtered # "pass" THEN Decision(filtered)
            ELSE IF capAlertElement # NullObj
            THEN EventDecision(capAlertElement, eventString)
            ELSE IF /\ Truthy(rawText.text)
                    /\ Includes(ToUpperCase(rawText.text),
                                <<"P", "R", "E", "L", "I", "M", "I", "N", "A", "R", "Y", " ", "L", "O", "C", "A", "L", " ", "S", "T", "O", "R", "M", " ", "R", "E", "P", "O", "R", "T">>)
            THEN Decision("storm_report")
            ELSE Decision("unknown_category")]

-----------------------------------------------------------------------------
(* rawParser.js: getSinglePointCoordinates, getTabularLsrEventTime *)

\* position i lies in a run of two or more white-space characters
InGap(s, i) ==
    /\ s[i] \in WhiteSpace
    /\ \/ i > 1 /\ s[i - 1] \in WhiteSpace
       \/ i < Len(s) /\ s[i + 1] \in WhiteSpace
\* s.replace(/\s\s+/g, ' ')
CollapseSpaces(s) ==
    Flatten([i \in 1..Len(s) |->
                IF ~InGap(s, i) THEN <<s[i]>>
                ELSE IF i = 1 \/ s[i - 1] \notin WhiteSpace THEN <<" ">>
                ELSE <<>>])
\* s.split(/\s{2,}/).filter(p => p.length > 0)
SplitOnGaps(s) ==
    LET starts == {i \in 1..Len(s) : ~InGap(s, i) /\ (i = 1 \/ InGap(s, i - 1))}
        EndOf(i) == MinOf({j \in i..Len(s) : j = Len(s) \/ InGap(s, j + 1)})
    IN  [n \in 1..Cardinality(starts) |->
            SubSeq(s, KthOf(starts, n), EndOf(KthOf(starts, n)))]

Spaces == Cls(WhiteSpace, 0, Unbounded)
\* (-?\d+\.?\d*): four items
Number == Cls({"-"}, 0, 1) \o Cls(Digit, 1, Unbounded) \o Cls({"."}, 0, 1)
              \o Cls(Digit, 0, Unbounded)
\* (\d{1,2}\.\d+)([NS])\s+(\d{1,3}\.\d+)([EW]): nine items
CoordPairPattern ==
    Cls(Digit, 1, 2) \o Lit(<<".">>) \o Cls(Digit, 1, Unbounded)
        \o Cls({"N", "S"}, 1, 1) \o Cls(WhiteSpace, 1, Unbounded)
        \o Cls(Digit, 1, 3) \o Lit(<<".">>) \o Cls(Digit, 1, Unbounded)
        \o Cls({"E", "W"}, 1, 1)

\* the offsets at which ^ matches under the m flag
LineStarts(s) ==
    {0} \cup {i \in 1..Len(s) : s[i] \in {"\n", "\r"}}

\* lat and lon as signed by the hemisphere letters; without a letter a
\* positive longitude is taken as west
SignedNumbers(lat, latSign, lon, lonSign, assumeWest) ==
    [ latitude |-> IF latSign = <<"S">> THEN 0 - lat ELSE lat,
      longitude |-> IF lonSign = <<"W">> THEN 0 - lon
                    ELSE IF assumeWest /\ lonSign = <<>> /\ lon > 0
                    THEN 0 - lon ELSE lon ]
SignedPoint(latText, latSign, lonText, lonSign, assumeWest) ==
    SignedNumbers(ParseFloat(latText).val, latSign,
                  ParseFloat(lonText).val, lonSign, assumeWest)

colonOrDot == Cls({":", "."}, 0, 1)
\* /(?:LATITUDE|LAT)[:.]?\s*(-?\d+\.?\d*)\s*([NS])?\s*
\*   (?:LONGITUDE|LON|LNG)[:.]?\s*(-?\d+\.?\d*)\s*([EW])?/
pattern1 ==
    Alt(<< <<"L", "A", "T", "I", "T", "U", "D", "E">>, <<"L", "A", "T">> >>) \o colonOrDot \o Spaces
        \o Number \o Spaces \o Cls({"N", "S"}, 0, 1) \o Spaces
        \o Alt(<< <<"L", "O", "N", "G", "I", "T", "U", "D", "E">>, <<"L", "O", "N">>, <<"L", "N", "G">> >>) \o colonOrDot
        \o Spaces \o Number \o Spaces \o Cls({"E", "W"}, 0, 1)
\* /LAT\/LON:?\s*(-?\d+\.?\d*)\s*\/?\s*(-?\d+\.?\d*)\s*([EW])?/
pattern2 ==
    Lit(<<"L", "A", "T", "/", "L", "O", "N">>) \o Cls({":"}, 0, 1) \o Spaces \o Number
        \o Spaces \o Cls({"/"}, 0, 1) \o Spaces \o Number
        \o Spaces \o Cls({"E", "W"}, 0, 1)
\* /^\s*(?:LATITUDE|LAT)\.*\s*(-?\d+\.?\d*)\s*([NS])?/im
latLinePattern ==
    Spaces \o Alt(<< <<"L", "A", "T", "I", "T", "U", "D", "E">>, <<"L", "A", "T">> >>)
        \o Cls({"."}, 0, Unbounded) \o Spaces \o Number
        \o Spaces \o Cls({"N", "S"}, 0, 1)
\* /^\s*(?:LONGITUDE|LON)\.*\s*(-?\d+\.?\d*)\s*([EW])?/im
lonLinePattern ==
    Spaces \o Alt(<< <<"L", "O", "N", "G", "I", "T", "U", "D", "E">>, <<"L", "O", "N">> >>)
        \o Cls({"."}, 0, Unbounded) \o Spaces \o Number
        \o Spaces \o Cls({"E", "W"}, 0, 1)

\* the patterns of getSinglePointCoordinates in the order the code tries them
PointOfPattern4(norm, p4) ==
    IF p4.ok
    THEN SignedPoint(Between(norm, p4.start, p4.ends[3]),
                     Between(norm, p4.ends[3], p4.ends[4]),
                     Between(norm, p4.ends[5], p4.ends[8]),
                     Between(norm, p4.ends[8], p4.ends[9]), FALSE)
    ELSE NullObj
PointOfLines(message, norm, latLine, lonLine) ==
    IF latLine.ok /\ lonLine.ok
    THEN SignedPoint(Between(message, latLine.ends[4], latLine.ends[8]),
                     Between(message, latLine.ends[9], latLine.ends[10]),
                     Between(message, lonLine.ends[4], lonLine.ends[8]),
                     Between(message, lonLine.ends[9], lonLine.ends[10]), TRUE)
    ELSE PointOfPattern4(norm, ReSearch(norm, CoordPairPattern, 0..Len(norm)))
PointOfPattern2(message, upper, norm, p2) ==
    IF p2.ok
    THEN SignedPoint(Between(norm, p2.ends[3], p2.ends[7]), <<>>,
                     Between(norm, p2.ends[10], p2.ends[14]),
                     Between(norm, p2.ends[15], p2.ends[16]), TRUE)
    ELSE PointOfLines(message, norm,
                      ReSearch(upper, latLinePattern, LineStarts(message)),
                      ReSearch(upper, lonLinePattern, LineStarts(message)))
PointOfPattern1(message, upper, norm, p1) ==
    IF p1.ok
    THEN SignedPoint(Between(norm, p1.ends[3], p1.ends[7]),
                     Between(norm, p1.ends[8], p1.ends[9]),
                     Between(norm, p1.ends[13], p1.ends[17]),
                     Between(norm, p1.ends[18], p1.ends[19]), TRUE)
    ELSE PointOfPattern2(message, upper, norm,
                         ReSearch(norm, pattern2, 0..Len(norm)))
PointOfText(message, upper, norm) ==
    PointOfPattern1(message, upper, norm, ReSearch(norm, pattern1, 0..Len(norm)))

\* getSinglePointCoordinates(message): {latitude, longitude} or null
getSinglePointCoordinates(message) ==
    IF ~Truthy(message) THEN NullObj
    ELSE PointOfText(message, ToUpperCase(message),
                     CollapseSpaces(ToUpperCase(message)))

\* getTabularLsrEventTime(message): "HHMM AM", "HHMM CDT", ..., or null
\* /^\s*(\d{2})(\d{2})\s+(?:(AM|PM|Z)|(EDT|EST|...|PST))\b/i
timeRegex ==
    Spaces \o Cls(Digit, 2, 2) \o Cls(Digit, 2, 2)
        \o Cls(WhiteSpace, 1, Unbounded)
        \o Alt(<< <<"A", "M">>, <<"P", "M">>, <<"Z">>, <<"E", "D", "T">>, <<"E", "S", "T">>, <<"C", "D", "T">>,
                  <<"C", "S", "T">>, <<"M", "D", "T">>, <<"M", "S", "T">>, <<"P", "D", "T">>, <<"P", "S", "T">> >>)
        \o WordB
TimeMatch(line) == ReMatch(ToUpperCase(line), timeRegex, 1, 0)
TimeOfMatch(line, ends) ==
    Between(line, ends[1], ends[3]) \o <<" ">> \o Between(line, ends[4], ends[5])
TimeOfLine(line) == TimeOfMatch(line, TimeMatch(line).ends)
EventTimeAmong(lines, hits) ==
    IF hits = {} THEN NULL ELSE TimeOfLine(lines[MinOf(hits)])
EventTimeOfLines(lines) ==
    EventTimeAmong(lines, {i \in 1..Len(lines) : TimeMatch(lines[i]).ok})
getTabularLsrEventTime(message) ==
    IF ~Truthy(message) THEN NULL ELSE EventTimeOfLines(Split(message, "\n"))

-----------------------------------------------------------------------------
(* stormReportParser.js: parseTabularLsrData *)

\* obj with obj.key = val
SetField(obj, key, val) ==
    [k \in DOMAIN obj \cup {key} |-> IF k = key THEN val ELSE obj[k]]
\* truthiness of a numeric property held as [nan, val]
TruthyNumber(obj, key) ==
    key \in DOMAIN obj /\ ~obj[key].nan /\ obj[key].val # 0
Abs(n) == IF n < 0 THEN 0 - n ELSE n
\* Number.prototype.toFixed(2) of a non-negative number in hundredths
ToFixed2(cents) ==
    NatToString(cents \div 100) \o <<".">> \o PadStart(NatToString(cents % 100), 2)

\* `${Math.abs(latitude).toFixed(2)}${latitude >= 0 ? 'N' : 'S'}`
LatString(lat) == ToFixed2(Abs(lat)) \o (IF lat >= 0 THEN <<"N">> ELSE <<"S">>)
LonString(lon) == ToFixed2(Abs(lon)) \o (IF lon >= 0 THEN <<"E">> ELSE <<"W">>)

\* /[NS]\s+\d{1,3}\.\d+[EW]/
HemisphereThenLon ==
    Cls({"N", "S"}, 1, 1) \o Cls(WhiteSpace, 1, Unbounded) \o Cls(Digit, 1, 3)
        \o Lit(<<".">>) \o Cls(Digit, 1, Unbounded) \o Cls({"E", "W"}, 1, 1)
\* new RegExp(`(\d{1,2}\.\d+)([NS])\s+(\d{1,3}\.\d+)([EW])`): the template
\* literal drops the backslashes, leaving d{1,2}.d+[NS]s+d{1,3}.d+[EW]
coordPatternInText ==
    Cls({"d"}, 1, 2) \o NotCls({"\n", "\r"}, 1, 1) \o Cls({"d"}, 1, Unbounded)
        \o Cls({"N", "S"}, 1, 1) \o Cls({"s"}, 1, Unbounded)
        \o Cls({"d"}, 1, 3) \o NotCls({"\n", "\r"}, 1, 1)
        \o Cls({"d"}, 1, Unbounded) \o Cls({"E", "W"}, 1, 1)
\* the alternatives of eventTypesRegex, in order
eventTypesRegex ==
    Alt(<< <<"T", "S", "T", "M", " ", "W", "N", "D", " ", "G", "S", "T">>, <<"T", "S", "T", "M", " ", "W", "N", "D", " ", "D", "M", "G">>, <<"H", "A", "I", "L">>, <<"F", "U", "N", "N", "E", "L", " ", "C", "L", "O", "U", "D">>,
           <<"T", "O", "R", "N", "A", "D", "O">>, <<"F", "L", "A", "S", "H", " ", "F", "L", "O", "O", "D">>, <<"M", "A", "R", "I", "N", "E", " ", "T", "S", "T", "M", " ", "W", "I", "N", "D">>, <<"W", "A", "T", "E", "R", "S", "P", "O", "U", "T">>,
           <<"H", "E", "A", "V", "Y", " ", "R", "A", "I", "N">>, <<"B", "L", "I", "Z", "Z", "A", "R", "D">>, <<"I", "C", "E", " ", "S", "T", "O", "R", "M">>, <<"H", "E", "A", "V", "Y", " ", "S", "N", "O", "W">>,
           <<"D", "U", "S", "T", " ", "S", "T", "O", "R", "M">>, <<"N", "O", "N", "-", "T", "S", "T", "M", " ", "W", "N", "D", " ", "G", "S", "T">>, <<"N", "O", "N", "-", "T", "S", "T", "M", " ", "W", "N", "D", " ", "D", "M", "G">> >>)
\* /^\d+\s+(N|S|E|W|NE|NW|SE|SW|MILE|MILES)/i
IsDistanceBearing(part) ==
    ReTestAtStart(ToUpperCase(part),
        Cls(Digit, 1, Unbounded) \o Cls(WhiteSpace, 1, Unbounded)
            \o Alt(<< <<"N">>, <<"S">>, <<"E">>, <<"W">>, <<"N", "E">>, <<"N", "W">>, <<"S", "E">>,
                      <<"S", "W">>, <<"M", "I", "L", "E">>, <<"M", "I", "L", "E", "S">> >>))
\* /\b(COUNTY|CITY|PARK|LAKE|RIVER|RD|STREET|AVE|HWY|NEAR)\b/i
HasPlaceWord(part) ==
    ReTest(ToUpperCase(part),
        WordB \o Alt(<< <<"C", "O", "U", "N", "T", "Y">>, <<"C", "I", "T", "Y">>, <<"P", "A", "R", "K">>, <<"L", "A", "K", "E">>, <<"R", "I", "V", "E", "R">>,
                        <<"R", "D">>, <<"S", "T", "R", "E", "E", "T">>, <<"A", "V", "E">>, <<"H", "W", "Y">>, <<"N", "E", "A", "R">> >>)
              \o WordB)
\* /(?:M|E)(\d+\.?\d*)\s*(MPH|INCH|KTS)/i
magRegex ==
    Cls({"M", "E"}, 1, 1) \o Cls(Digit, 1, Unbounded) \o Cls({"."}, 0, 1)
        \o Cls(Digit, 0, Unbounded) \o Spaces
        \o Alt(<< <<"M", "P", "H">>, <<"I", "N", "C", "H">>, <<"K", "T", "S">> >>)
MagSearch(s) == ReSearch(ToUpperCase(s), magRegex, 0..Len(s))
\* isNaN(part) for a string: not a decimal literal
IsNaNString(part) ==
    LET t == Trim(part)
        sign == Cls({"+", "-"}, 0, 1)
    IN  /\ t # <<>>
        /\ ~ReTestAtStart(t, sign \o Cls(Digit, 1, Unbounded) \o Cls({"."}, 0, 1)
                                 \o Cls(Digit, 0, Unbounded) \o EndOfText)
        /\ ~ReTestAtStart(t, sign \o Lit(<<".">>) \o Cls(Digit, 1, Unbounded)
                                 \o EndOfText)
\* trimmedLine.replace(/^\.\.\s*/, '')
StripLeadingDots(s) ==
    IF ~StartsWith(s, <<".", ".">>) THEN s
    ELSE LET rest == SubstringFrom(s, 2)
             keep == {i \in 1..Len(rest) : rest[i] \notin WhiteSpace}
         IN  IF keep = {} THEN <<>> ELSE SubSeq(rest, MinOf(keep), Len(rest))

\* the first line index (1-based) in from..Len(lines) with content, 0 if none
FirstNonBlank(lines, from) ==
    LET hits == {i \in from..Len(lines) : Trim(lines[i]) # <<>>}
    IN  IF hits = {} THEN 0 ELSE MinOf(hits)

\* the index (1-based) of the primary data line, 0 if none
PrimaryDataLine(lines, reportData) ==
    LET eventTime == Get(reportData, "eventTime")
        rawLatStringForSearch ==
            IF TruthyNumber(reportData, "latitude")
            THEN LatString(reportData["latitude"].val) ELSE <<>>
        byTimeAndLat ==
            {i \in 1..Len(lines) :
                /\ Truthy(eventTime) /\ Includes(lines[i], eventTime)
                /\ rawLatStringForSearch # <<>>
                /\ Includes(lines[i], rawLatStringForSearch)}
        byTimePrefix ==
            {i \in 1..Len(lines) :
                /\ Truthy(eventTime)
                /\ \/ StartsWith(Trim(lines[i]), eventTime)
                   \/ Includes(lines[i], eventTime \o <<" ">>)
                /\ \/ ReTest(lines[i], HemisphereThenLon)
                   \/ ReTest(lines[i], CoordPairPattern)}
    IN  IF byTimeAndLat # {} THEN MinOf(byTimeAndLat)
        ELSE IF byTimePrefix # {} THEN MinOf(byTimePrefix)
        ELSE 0

\* the text of the primary line between the event time and the coordinates
TextForEventLocation(primaryLine, reportData) ==
    LET eventTime == Get(reportData, "eventTime")
        afterTime ==
            IF Truthy(eventTime) /\ Includes(primaryLine, eventTime)
            THEN Trim(SubstringFrom(primaryLine,
                          IndexOf(primaryLine, eventTime) + Len(eventTime)))
            ELSE primaryLine
        coordMatchInLine == ReSearch(primaryLine, coordPatternInText,
                                     0..Len(primaryLine))
        rawFullCoordString ==
            IF TruthyNumber(reportData, "latitude")
                   /\ TruthyNumber(reportData, "longitude")
            THEN IF coordMatchInLine.ok
                 THEN Between(primaryLine, coordMatchInLine.start,
                              coordMatchInLine.ends[9])
                 ELSE LatString(reportData["latitude"].val) \o <<" ">>
                          \o LonString(reportData["longitude"].val)
            ELSE <<>>
    IN  IF rawFullCoordString # <<>> /\ Includes(afterTime, rawFullCoordString)
        THEN Trim(Substring(afterTime, 0, LastIndexOf(afterTime, rawFullCoordString)))
        ELSE afterTime

\* summary and eventLocation taken from the primary line; a field that is
\* already set is left alone
WithEventAndLocation(text, reportData) ==
    LET noSummary == ~Truthy(Get(reportData, "summary"))
        noLocation == ~Truthy(Get(reportData, "eventLocation"))
        eventMatch == ReMatch(ToUpperCase(text), eventTypesRegex, 1, 0)
        parts == SplitOnGaps(text)
        n == Len(parts)
        Fill(summary, location) ==
            LET withSummary == IF summary.set
                               THEN SetField(reportData, "summary", summary.value)
                               ELSE reportData
            IN  IF location.set
                THEN SetField(withSummary, "eventLocation", location.value)
                ELSE withSummary
        Keep == [set |-> FALSE, value |-> <<>>]
        To(v) == [set |-> TRUE, value |-> v]
    IN  IF eventMatch.ok
        THEN LET matched == Between(text, 0, eventMatch.ends[1])
                 remainingText == Trim(SubstringFrom(text, Len(matched)))
             IN  Fill(IF noSummary THEN To(Trim(matched)) ELSE Keep,
                      IF remainingText # <<>> /\ noLocation
                      THEN To(Trim(CollapseSpaces(remainingText))) ELSE Keep)
        ELSE IF n = 0 THEN reportData
        ELSE IF n > 1 /\ IsDistanceBearing(parts[n])
        THEN LET left == IF noLocation THEN SubSeq(parts, 1, n - 1) ELSE parts
             IN  Fill(IF Len(left) > 0 /\ noSummary
                      THEN To(Trim(Join(left, <<" ">>))) ELSE Keep,
                      IF noLocation THEN To(Trim(parts[n])) ELSE Keep)
        ELSE IF n = 1
        THEN IF IsDistanceBearing(parts[1]) \/ HasPlaceWord(parts[1])
             THEN Fill(Keep, IF noLocation THEN To(Trim(parts[1])) ELSE Keep)
             ELSE Fill(IF noSummary THEN To(Trim(parts[1])) ELSE Keep, Keep)
        ELSE LET left == IF noSummary THEN Tail(parts) ELSE parts
             IN  Fill(IF noSummary THEN To(Trim(parts[1])) ELSE Keep,
                      IF Len(left) > 0 /\ noLocation
                      THEN To(Trim(Join(left, <<" ">>))) ELSE Keep)

\* magnitude and dataSource taken from the second data line
WithMagnitudeAndSource(secondLine, reportData) ==
    LET secondLineContent == Trim(secondLine)
        secondLineParts == SplitOnGaps(secondLineContent)
        magMatch == MagSearch(secondLineContent)
        withMagnitude ==
            IF magMatch.ok /\ ~Truthy(Get(reportData, "magnitude"))
            THEN SetField(reportData, "magnitude",
                     Between(secondLineContent, magMatch.start, magMatch.ends[6]))
            ELSE reportData
        candidates ==
            {k \in 1..Len(secondLineParts) :
                LET part == secondLineParts[k]
                IN  /\ Len(part) > 1
                    /\ IsNaNString(part)
                    /\ ~ReTestAtStart(part, Cls(Upper, 2, 2) \o EndOfText)
                    /\ ~Includes(part, <<"/">>)
                    /\ ~Includes(part, <<":">>)
                    /\ ~MagSearch(part).ok}
    IN  IF candidates # {} /\ ~Truthy(Get(reportData, "dataSource"))
        THEN SetField(withMagnitude, "dataSource",
                      secondLineParts[MaxOf(candidates)])
        ELSE withMagnitude

\* a line that ends the report
IsEndMarker(trimmedLine) ==
    \/ trimmedLine = <<"&", "&">>
    \/ trimmedLine = <<"$", "$">>
    \/ ReTestAtStart(trimmedLine, Cls(Digit, 3, Unbounded) \o EndOfText)
    \/ ReTest(trimmedLine, Lit(<<"N", "W", "U", "S">>) \o Cls(Digit, 2, 2))
    \/ trimmedLine = <<"K", "M", "L">>

\* the test that makes line i the first remark line
StartsRemarks(lines, i, first, primary, second, eventTime) ==
    LET line == lines[i]
        trimmedLine == Trim(line)
    IN  \/ StartsWith(line, <<" ", " ", " ", " ", " ", " ", " ", " ", " ", " ", " ", " ">>)
        \/ StartsWith(line, <<" ", " ", " ", " ", " ", " ", " ", " ", " ", " ">>)
        \/ StartsWith(trimmedLine, <<".", ".">>)
        \/ /\ i = first
           /\ ~StartsWith(trimmedLine, <<".", ".", "T", "I", "M", "E", ".", ".", ".">>)
           /\ ~ReTestAtStart(trimmedLine,
                  Cls(Digit, 4, 4) \o Cls(WhiteSpace, 1, Unbounded)
                      \o Alt(<< <<"A", "M">>, <<"P", "M">>, <<"Z">> >>))
           /\ ~ReTestAtStart(trimmedLine,
                  Cls(Upper, 2, 2) \o Cls({"C", "Z"}, 1, 1) \o Cls(Digit, 3, 3))
           /\ ~(Truthy(eventTime) /\ Includes(line, eventTime))
           /\ ~ReTest(trimmedLine, CoordPairPattern)
           /\ ~MagSearch(trimmedLine).ok
           /\ ~Includes(lines[primary], trimmedLine)
           /\ ~(second # 0 /\ Includes(lines[second], trimmedLine))

\* the remark lines collected from line i on
RECURSIVE RemarksLoop(_, _, _, _, _, _, _, _)
RemarksLoop(lines, i, found, remarksText, first, primary, second, eventTime) ==
    IF i > Len(lines) THEN remarksText
    ELSE
    LET trimmedLine == Trim(lines[i])
        Continue(f, acc) ==
            RemarksLoop(lines, i + 1, f, acc, first, primary, second, eventTime)
    IN  IF IsEndMarker(trimmedLine) THEN remarksText
        ELSE IF ~found
        THEN IF trimmedLine = <<>> THEN Continue(FALSE, remarksText)
             ELSE IF StartsRemarks(lines, i, first, primary, second, eventTime)
             THEN Continue(TRUE, Append(remarksText, StripLeadingDots(trimmedLine)))
             ELSE IF i = first THEN remarksText
             ELSE Continue(FALSE, remarksText)
        ELSE IF trimmedLine # <<>>
        THEN Continue(TRUE, Append(remarksText, StripLeadingDots(trimmedLine)))
        ELSE IF i < Len(lines) /\ Trim(lines[i + 1]) # <<>>
        THEN Continue(TRUE, Append(remarksText, <<>>))
        ELSE remarksText

\* variant of WithRemarks that replaces remarks the record holds already
WithRemarksReplaced(lines, primary, second, reportData) ==
    LET remarksSearchStartIndex == IF second # 0 THEN second + 1 ELSE primary + 1
        first == FirstNonBlank(lines, remarksSearchStartIndex)
        remarksText ==
            IF first = 0 THEN <<>>
            ELSE RemarksLoop(lines, first, FALSE, <<>>, first, primary, second,
                             Get(reportData, "eventTime"))
    IN  IF Len(remarksText) > 0
        THEN SetField(reportData, "remarks",
                      Trim(CollapseSpaces(Join(remarksText, <<" ">>))))
        ELSE reportData

WithRemarks(lines, primary, second, reportData) ==
    LET remarksSearchStartIndex == IF second # 0 THEN second + 1 ELSE primary + 1
        first == FirstNonBlank(lines, remarksSearchStartIndex)
        remarksText ==
            IF first = 0 THEN <<>>
            ELSE RemarksLoop(lines, first, FALSE, <<>>, first, primary, second,
                             Get(reportData, "eventTime"))
    IN  IF Len(remarksText) > 0 /\ ~Truthy(Get(reportData, "remarks"))
        THEN SetField(reportData, "remarks",
                      Trim(CollapseSpaces(Join(remarksText, <<" ">>))))
        ELSE reportData

\* parseTabularLsrData(rawText, reportData): reportData as the call leaves it
parseTabularLsrData(rawText, reportData) ==
    IF ~Truthy(rawText) THEN reportData
    ELSE
    LET AfterPrimary(lines, primary, second, afterPrimary) ==
            WithRemarks(lines, primary, second,
                IF second # 0 THEN WithMagnitudeAndSource(lines[second], afterPrimary)
                ELSE afterPrimary)
        FromPrimary(lines, primary) ==
            IF primary = 0 THEN reportData
            ELSE AfterPrimary(lines, primary, FirstNonBlank(lines, primary + 1),
                     WithEventAndLocation(
                         TextForEventLocation(lines[primary], reportData),
                         reportData))
        OfLines(lines) == FromPrimary(lines, PrimaryDataLine(lines, reportData))
    IN  OfLines(Split(rawText, "\n"))

-----------------------------------------------------------------------------
(* stormReportParser.js: parseStormReport *)

\* A storm report element is NullObj or a record [shape, fields], fields
\* mapping the names of its text children to their text. The pino logger
\* that index.js passes in this position is an xml2js-shaped object with
\* none of the children the parser asks for.

\* extractFieldWithMultiplePrefixes(rawText, prefixes)
extractFieldWithMultiplePrefixes(rawText, prefixes) ==
    IF ~Truthy(rawText) THEN NULL
    ELSE LET First(hits) ==
                 IF hits = {} THEN NULL
                 ELSE getStringByLine(rawText, prefixes[MinOf(hits)])
         IN  First({k \in 1..Len(prefixes) :
                       Truthy(getStringByLine(rawText, prefixes[k]))})

\* _getElementText(element, childName, isXmlJs, defaultValue)
_getElementText(element, childName, defaultValue) ==
    IF element = NullObj THEN defaultValue
    ELSE IF childName \in DOMAIN element.fields THEN element.fields[childName]
    ELSE defaultValue

summaryPrefixes ==
    << <<"S", "U", "M", "M", "A", "R", "Y", ".", ".", ".", ".", ".", ".", ".", ".", ".">>, <<"S", "U", "M", "M", "A", "R", "Y", ":">>, <<"E", "V", "E", "N", "T", " ", "S", "U", "M", "M", "A", "R", "Y", ":">>, <<"R", "E", "P", "O", "R", "T", " ", "S", "U", "M", "M", "A", "R", "Y", ":">> >>
locationPrefixes ==
    << <<"L", "O", "C", "A", "T", "I", "O", "N", ".", ".", ".", ".", ".", ".", ".", ".">>, <<"L", "O", "C", "A", "T", "I", "O", "N", ":">>, <<"E", "V", "E", "N", "T", " ", "L", "O", "C", "A", "T", "I", "O", "N", ":">> >>
timePrefixes ==
    << <<"T", "I", "M", "E", ".", ".", ".", ".", ".", ".", ".", ".", ".", ".", ".", ".">>, <<"T", "I", "M", "E", ":">>, <<"E", "V", "E", "N", "T", " ", "T", "I", "M", "E", ":">> >>
sourcePrefixes ==
    << <<"S", "O", "U", "R", "C", "E", ".", ".", ".", ".", ".", ".", ".", ".", ".", ".">>, <<"S", "O", "U", "R", "C", "E", ":">>, <<"D", "A", "T", "A", " ", "S", "O", "U", "R", "C", "E", ":">> >>
remarksPrefixes ==
    << <<"R", "E", "M", "A", "R", "K", "S", ".", ".", ".", ".", ".", ".", ".", ".", ".">>, <<"R", "E", "M", "A", "R", "K", "S", ":">>, <<"A", "D", "D", "I", "T", "I", "O", "N", "A", "L", " ", "I", "N", "F", "O", "R", "M", "A", "T", "I", "O", "N", ":">> >>

\* the fields read from the element: the if (stormReportElement) block
FromStormReportElement(el) ==
    LET xmlLatitude == _getElementText(el, "latitude", NULL)
        xmlLongitude == _getElementText(el, "longitude", NULL)
        xmlUgc == _getElementText(el, "ugc", NULL)
        coordinates ==
            IF xmlLatitude # NULL /\ xmlLongitude # NULL
            THEN [latitude |-> ParseFloat(xmlLatitude),
                  longitude |-> ParseFloat(xmlLongitude)]
            ELSE <<>>
        ugc == IF Truthy(xmlUgc) THEN [ugc |-> xmlUgc] ELSE <<>>
    IN  IF el = NullObj THEN <<>>
        ELSE [ summary |-> _getElementText(el, "summary", UNDEFINED),
               eventLocation |->
                   OrElse(_getElementText(el, "location", NULL),
                          _getElementText(el, "eventLocation", UNDEFINED)),
               eventTime |->
                   OrElse(_getElementText(el, "time", NULL),
                          _getElementText(el, "eventTime", UNDEFINED)),
               dataSource |->
                   OrElse(_getElementText(el, "source", NULL),
                          _getElementText(el, "dataSource", UNDEFINED)),
               remarks |-> _getElementText(el, "remarks", UNDEFINED),
               issuingOffice |->
                   OrElse(_getElementText(el, "office", NULL),
                          _getElementText(el, "issuingOffice", UNDEFINED)) ]
                 @@ coordinates @@ ugc

\* the fields read from the raw text where the element left them empty
FromRawText(rawText, fromElement) ==
    LET Missing(key) == ~Truthy(Get(fromElement, key))
        Extract(key, prefixes) ==
            IF Missing(key)
            THEN key :> extractFieldWithMultiplePrefixes(rawText, prefixes)
            ELSE <<>>
        Ugc(ugcFromRaw) ==
            IF "ugc" \notin DOMAIN fromElement /\ ugcFromRaw # NullObj
            THEN [ugc |-> ugcFromRaw] ELSE <<>>
        EventTime(tabularTime) ==
            IF Truthy(tabularTime) THEN tabularTime
            ELSE extractFieldWithMultiplePrefixes(rawText, timePrefixes)
        Coordinates(coordinatesFromRaw) ==
            IF /\ \/ "latitude" \notin DOMAIN fromElement
                  \/ "longitude" \notin DOMAIN fromElement
               /\ coordinatesFromRaw # NullObj
            THEN [latitude |-> [nan |-> FALSE, val |-> coordinatesFromRaw.latitude],
                  longitude |-> [nan |-> FALSE, val |-> coordinatesFromRaw.longitude]]
            ELSE <<>>
    IN  Ugc(getUgc(rawText))
        @@ (IF Missing("issuingOffice")
            THEN [issuingOffice |-> getOfficeName(rawText)] ELSE <<>>)
        @@ Extract("summary", summaryPrefixes)
        @@ Extract("eventLocation", locationPrefixes)
        @@ (IF Missing("eventTime")
            THEN [eventTime |-> EventTime(getTabularLsrEventTime(rawText))]
            ELSE <<>>)
        @@ Extract("dataSource", sourcePrefixes)
        @@ Extract("remarks", remarksPrefixes)
        @@ Coordinates(getSinglePointCoordinates(rawText))

\* parseStormReport(rawText, id, stormReportElement): [threw, value]. No
\* statement of the try block fails on a raw text that is a string or null,
\* so the catch block is never entered.
parseStormReport(rawText, id, stormReportElement) ==
    LET initial == [ id |-> id,
                     source |-> "nwws-oi",
                     type |-> "Local Storm Report",
                     raw_product_text |-> rawText,
                     magnitude |-> NULL ]
        Missing(reportData, key) == ~Truthy(Get(reportData, key))
        Tabular(reportData) ==
            IF /\ Truthy(rawText)
               /\ \/ Missing(reportData, "summary")
                  \/ Missing(reportData, "eventLocation")
                  \/ Missing(reportData, "dataSource")
                  \/ Missing(reportData, "remarks")
            THEN parseTabularLsrData(rawText, reportData)
            ELSE reportData
        OfElement(fromElement) ==
            Tabular(FromRawText(rawText, fromElement) @@ fromElement @@ initial)
    IN  [threw |-> FALSE,
         value |-> OfElement(FromStormReportElement(stormReportElement))]

-----------------------------------------------------------------------------
(* SpecParse: the categorizer and the parsers applied to bounded inputs *)

CAP12 == <<"u", "r", "n", ":", "o", "a", "s", "i", "s", ":", "n", "a", "m", "e", "s", ":", "t", "c", ":", "e", "m", "e", "r", "g", "e", "n", "c", "y", ":", "c", "a", "p", ":", "1", ".", "2">>
CAP11 == <<"u", "r", "n", ":", "o", "a", "s", "i", "s", ":", "n", "a", "m", "e", "s", ":", "t", "c", ":", "e", "m", "e", "r", "g", "e", "n", "c", "y", ":", "c", "a", "p", ":", "1", ".", "1">>

\* one geocode or parameter entry
Entry(valueName, value) == [valueName |-> valueName, value |-> value]

\* an info block with one area
CapInfo(event, geocode, polygon, parameter) ==
    [ event |-> event, urgency |-> <<"I", "m", "m", "e", "d", "i", "a", "t", "e">>, severity |-> <<"S", "e", "v", "e", "r", "e">>,
      certainty |-> <<"O", "b", "s", "e", "r", "v", "e", "d">>, effective |-> UNDEFINED, onset |-> UNDEFINED,
      expires |-> UNDEFINED, headline |-> <<"H", "e", "a", "d", "l", "i", "n", "e">>,
      description |-> UNDEFINED, instruction |-> UNDEFINED,
      senderName |-> <<"N", "W", "S", " ", "P", "a", "d", "u", "c", "a", "h", " ", "K", "Y">>,
      area |-> << [areaDesc |-> <<"M", "c", "C", "r", "a", "c", "k", "e", "n">>, geocode |-> geocode,
                   polygon |-> polygon] >>,
      parameter |-> parameter ]

\* a CAP alert in the given shape
CapAlert(shape, xmlns, msgType, info) ==
    [ kind |-> "alert", shape |-> shape, xmlns |-> xmlns,
      sender |-> <<"w", "-", "n", "w", "s", ".", "w", "e", "b", "m", "a", "s", "t", "e", "r", "@", "n", "o", "a", "a", ".", "g", "o", "v">>, sent |-> UNDEFINED,
      status |-> <<"A", "c", "t", "u", "a", "l">>, msgType |-> msgType, scope |-> <<"P", "u", "b", "l", "i", "c">>,
      info |-> info ]

\* the second info block of the inputs that carry two
SecondInfo ==
    [ CapInfo(<<"F", "l", "o", "o", "d", " ", "W", "a", "r", "n", "i", "n", "g">>, <<Entry(<<"U", "G", "C">>, <<"K", "Y", "C", "0", "7", "5">>)>>, <<>>, <<>>)
        EXCEPT !.severity = <<"M", "o", "d", "e", "r", "a", "t", "e">>, !.headline = <<"F", "l", "o", "o", "d", " ", "h", "e", "a", "d", "l", "i", "n", "e">>,
               !.description = <<"F", "l", "o", "o", "d", " ", "d", "e", "s", "c", "r", "i", "p", "t", "i", "o", "n">>,
               !.expires = <<"2", "0", "2", "4", "-", "0", "5", "-", "2", "1", "T", "2", "3", ":", "3", "0", ":", "0", "0", "-", "0", "5", ":", "0", "0">> ]

\* the second of the three info blocks of the inputs that carry three
DeniedInfo ==
    [ CapInfo(<<"T", "e", "s", "t", " ", "M", "e", "s", "s", "a", "g", "e">>, <<>>, <<>>, <<>>)
        EXCEPT !.urgency = <<>>, !.headline = <<"T", "e", "s", "t", " ", "h", "e", "a", "d", "l", "i", "n", "e">>,
               !.instruction = <<"N", "o", "n", "e">> ]

GoodPolygon == <<"3", "7", ".", "1", "0", ",", "-", "8", "8", ".", "7", "0", " ", "3", "7", ".", "2", "0", ",", "-", "8", "8", ".", "6", "0", " ", "3", "7", ".", "0", "0", ",", "-", "8", "8", ".", "5", "0", " ", "3", "7", ".", "1", "0", ",", "-", "8", "8", ".", "7", "0">>
NonNumericPolygon == <<"3", "7", ".", "1", "0", ",", "-", "8", "8", ".", "7", "0", " ", "a", "b", "c", ",", "-", "8", "8", ".", "6", "0", " ", "3", "7", ".", "0", "0", ",", "-", "8", "8", ".", "5", "0", " ", "3", "7", ".", "1", "0", ",", "-", "8", "8", ".", "7", "0">>
MissingTokenPolygon == <<"3", "7", ".", "1", "0", ",", "-", "8", "8", ".", "7", "0", " ", "3", "7", ".", "2", "0", " ", "3", "7", ".", "0", "0", ",", "-", "8", "8", ".", "5", "0", " ", "3", "7", ".", "1", "0", ",", "-", "8", "8", ".", "7", "0">>
ShortPolygon == <<"3", "7", ".", "1", "0", ",", "-", "8", "8", ".", "7", "0", " ", "3", "7", ".", "2", "0", ",", "-", "8", "8", ".", "6", "0">>

GeocodeChoices ==
    [ allowed |-> <<Entry(<<"U", "G", "C">>, <<"K", "Y", "C", "1", "0", "5">>)>>,
      other |-> <<Entry(<<"U", "G", "C">>, <<"I", "N", "C", "0", "0", "1">>)>>,
      lower |-> <<Entry(<<"u", "g", "c">>, <<"K", "Y", "C", "1", "0", "5">>)>>,
      fips |-> <<Entry(<<"F", "I", "P", "S", "6">>, <<"0", "2", "1", "1", "4", "5">>), Entry(<<"U", "G", "C">>, <<"K", "Y", "C", "1", "0", "5">>)>>,
      twice |-> <<Entry(<<"U", "G", "C">>, <<"K", "Y", "C", "1", "0", "5">>), Entry(<<"U", "G", "C">>, <<"K", "Y", "C", "1", "0", "5">>)>>,
      spaced |-> <<Entry(<<"U", "G", "C">>, <<"K", "Y", "C", "1", "0", "5", " ", "K", "Y", "C", "0", "7", "5">>)>>,
      none |-> <<>>,
      objectName |-> <<Entry(OBJECT, <<"K", "Y", "C", "1", "0", "5">>)>>,
      objectValue |-> <<Entry(<<"U", "G", "C">>, OBJECT)>> ]

PolygonChoices ==
    [ none |-> <<>>,
      good |-> <<GoodPolygon>>,
      short |-> <<ShortPolygon>>,
      nonNumeric |-> <<NonNumericPolygon>>,
      missingToken |-> <<MissingTokenPolygon>>,
      empty |-> <<GoodPolygon, <<>>>>,
      object |-> <<OBJECT>> ]

ParameterChoices ==
    [ none |-> <<>>,
      ugc |-> <<Entry(<<"U", "G", "C">>, <<"K", "Y", "C", "1", "4", "5">>)>>,
      vtec |-> <<Entry(<<"V", "T", "E", "C">>, <<"/", "O", ".", "N", "E", "W", ".", "K", "P", "A", "H", ".", "T", "O", ".", "W", ".", "0", "0", "3", "0", ".", "2", "4", "0", "5", "2", "1", "T", "2", "2", "5", "4", "Z", "-", "2", "4", "0", "5", "2", "1", "T", "2", "3", "3", "0", "Z", "/">>)>> ]

EventChoices ==
    { <<"T", "o", "r", "n", "a", "d", "o", " ", "W", "a", "r", "n", "i", "n", "g">>, <<"t", "o", "r", "n", "a", "d", "o", " ", "w", "a", "r", "n", "i", "n", "g">>, <<"T", "e", "s", "t", " ", "M", "e", "s", "s", "a", "g", "e">>,
      <<"W", "i", "n", "t", "e", "r", " ", "S", "t", "o", "r", "m", " ", "W", "a", "t", "c", "h">>, UNDEFINED }

MsgTypeChoices == { <<"A", "l", "e", "r", "t">>, <<"C", "a", "n", "c", "e", "l">>, <<"U", "P", "D", "A", "T", "E">>, UNDEFINED }

\* the product texts
LsrHeaderLines ==
    << <<"N", "W", "U", "S", "5", "3", " ", "K", "P", "A", "H", " ", "2", "1", "2", "2", "5", "4">>, <<"L", "S", "R", "P", "A", "H">>, <<>>,
       <<"P", "R", "E", "L", "I", "M", "I", "N", "A", "R", "Y", " ", "L", "O", "C", "A", "L", " ", "S", "T", "O", "R", "M", " ", "R", "E", "P", "O", "R", "T">> >>
LsrTabularLines ==
    << <<>>,
       <<"0", "1", "5", "5", " ", "P", "M", " ", " ", " ", " ", " ", "H", "A", "I", "L", " ", " ", " ", " ", " ", " ", " ", " ", " ", " ", " ", " ", " ", "1", " ", "N", " ", "C", "E", "N", "T", "R", "A", "L", " ", "P", "A", "R", "K", " ", " ", " ", " ", " ", " ", "4", "0", ".", "7", "8", "N", " ", "7", "3", ".", "9", "7", "W">>,
       <<"0", "5", "/", "2", "1", "/", "2", "0", "2", "4", " ", " ", "M", "1", ".", "0", "0", " ", "I", "N", "C", "H", " ", " ", " ", " ", " ", " ", " ", "N", "E", "W", " ", "Y", "O", "R", "K", " ", " ", " ", "N", "Y", " ", " ", " ", "T", "R", "A", "I", "N", "E", "D", " ", "S", "P", "O", "T", "T", "E", "R">>,
       <<>>,
       <<" ", " ", " ", " ", " ", " ", " ", " ", " ", " ", " ", " ", "Q", "U", "A", "R", "T", "E", "R", " ", "S", "I", "Z", "E", " ", "H", "A", "I", "L", ".">>,
       <<>>, <<"&", "&">> >>
TextChoices ==
    [ null |-> NULL,
      empty |-> <<>>,
      twoPairs |->
          Join(<< <<"W", "U", "U", "S", "5", "3", " ", "K", "P", "A", "H", " ", "2", "1", "2", "2", "5", "4">>,
                  <<"L", "A", "T", ".", ".", ".", "L", "O", "N", " ", "3", "7", "1", "0", " ", "8", "8", "7", "0", " ", "3", "7", "2", "0", " ", "8", "8", "6", "0">> >>, NL),
      plain |-> <<"B", "U", "L", "L", "E", "T", "I", "N", " ", "-", " ", "I", "M", "M", "E", "D", "I", "A", "T", "E", " ", "B", "R", "O", "A", "D", "C", "A", "S", "T", " ", "R", "E", "Q", "U", "E", "S", "T", "E", "D">>,
      warning |->
          Join(<< <<"W", "U", "U", "S", "5", "3", " ", "K", "P", "A", "H", " ", "2", "1", "2", "2", "5", "4">>, <<"K", "Y", "C", "1", "0", "5", "-", "1", "4", "5", "-", "2", "1", "2", "3", "3", "0", "-">>,
                  <<"/", "O", ".", "N", "E", "W", ".", "K", "P", "A", "H", ".", "T", "O", ".", "W", ".", "0", "0", "3", "0", ".", "2", "4", "0", "5", "2", "1", "T", "2", "2", "5", "4", "Z", "-", "2", "4", "0", "5", "2", "1", "T", "2", "3", "3", "0", "Z", "/">>,
                  <<"N", "a", "t", "i", "o", "n", "a", "l", " ", "W", "e", "a", "t", "h", "e", "r", " ", "S", "e", "r", "v", "i", "c", "e", " ", "P", "a", "d", "u", "c", "a", "h", " ", "K", "Y">>,
                  <<"L", "A", "T", ".", ".", ".", "L", "O", "N", " ", "3", "7", "1", "0", " ", "8", "8", "7", "0", " ", "3", "7", "2", "0", " ", "8", "8", "6", "0", " ", "3", "7", "0", "0", " ", "8", "8", "5", "0">> >>, NL),
      lsrPaducah |->
          Join(LsrHeaderLines
                   \o << <<"N", "a", "t", "i", "o", "n", "a", "l", " ", "W", "e", "a", "t", "h", "e", "r", " ", "S", "e", "r", "v", "i", "c", "e", " ", "P", "a", "d", "u", "c", "a", "h", " ", "K", "Y">> >>
                   \o LsrTabularLines, NL),
      lsrLower |->
          Join(<< <<"P", "r", "e", "l", "i", "m", "i", "n", "a", "r", "y", " ", "L", "o", "c", "a", "l", " ", "S", "t", "o", "r", "m", " ", "R", "e", "p", "o", "r", "t">>,
                  <<"N", "a", "t", "i", "o", "n", "a", "l", " ", "W", "e", "a", "t", "h", "e", "r", " ", "S", "e", "r", "v", "i", "c", "e", " ", "M", "e", "m", "p", "h", "i", "s", " ", "T", "N">>,
                  <<"S", "U", "M", "M", "A", "R", "Y", ".", ".", ".", ".", ".", ".", ".", ".", ".", "R", "a", "i", "n">>, <<"L", "O", "C", "A", "T", "I", "O", "N", ".", ".", ".", ".", ".", ".", ".", ".", "2", " ", "E", "N", "E", " ", "T", "O", "W", "N">>,
                  <<"T", "I", "M", "E", ".", ".", ".", ".", ".", ".", ".", ".", ".", ".", ".", ".", "0", "3", "0", "0", " ", "P", "M">>, <<"S", "O", "U", "R", "C", "E", ".", ".", ".", ".", ".", ".", ".", ".", ".", ".", "P", "U", "B", "L", "I", "C">>,
                  <<"R", "E", "M", "A", "R", "K", "S", ".", ".", ".", ".", ".", ".", ".", ".", ".", "M", "I", "N", "O", "R", ".">> >>, NL),
      lsrRain |->
          Join(LsrHeaderLines
                   \o << <<"N", "a", "t", "i", "o", "n", "a", "l", " ", "W", "e", "a", "t", "h", "e", "r", " ", "S", "e", "r", "v", "i", "c", "e", " ", "L", "o", "u", "i", "s", "v", "i", "l", "l", "e", " ", "K", "Y">>, <<>>,
                         <<"0", "3", "0", "0", " ", "P", "M", " ", " ", " ", " ", " ", "R", "a", "i", "n", " ", " ", " ", "3", "7", ".", "1", "0", "N", " ", "8", "8", ".", "7", "0", "W">> >>, NL),
      lsrNoOffice |->
          Join(LsrHeaderLines \o LsrTabularLines, NL) ]

\* the elements handed to parseStormReport
LoggerObject == [shape |-> "xml2js", fields |-> <<>>]

\* An input names its parts; the values handed to the functions are built
\* from the names. where: the place of the CAP alert ("rawText": the XML of
\* the raw text, parsed by xml2js; "stanza": an element of the envelope) or
\* what takes its place.
ParseInputShape(where, xmlns, msgType, event, geocode, polygon, parameter,
                infos, ugcFilter, text, element) ==
    [ case |-> "input", where |-> where, xmlns |-> xmlns, msgType |-> msgType,
      event |-> event, geocode |-> geocode, polygon |-> polygon,
      parameter |-> parameter, infos |-> infos, ugcFilter |-> ugcFilter,
      text |-> text, element |-> element ]

\* the element tree cannot hold a child that is an object
ObjectChoices == {"objectName", "objectValue", "object"}

ParseInputs ==
    \* message type and event, in both shapes
    { ParseInputShape(w, CAP12, m, e, "allowed", "good", "none", 1, NULL,
                      "warning", "null") :
        w \in {"rawText", "stanza"}, m \in MsgTypeChoices, e \in EventChoices }
    \cup
    \* geocodes, polygons and parameters, in both shapes
    { ParseInputShape(x[1], CAP12, <<"A", "l", "e", "r", "t">>, <<"T", "o", "r", "n", "a", "d", "o", " ", "W", "a", "r", "n", "i", "n", "g">>, x[2], x[3],
                      x[4], 1, NULL, "plain", "null") :
        x \in { y \in {"rawText", "stanza"} \X (DOMAIN GeocodeChoices)
                        \X (DOMAIN PolygonChoices) \X (DOMAIN ParameterChoices) :
                    y[1] = "stanza" => {y[2], y[3]} \cap ObjectChoices = {} } }
    \cup
    \* number of info blocks, namespace and the UGC_FILTER_CODES variable
    { ParseInputShape(x[1], x[2], <<"A", "l", "e", "r", "t">>, <<"T", "o", "r", "n", "a", "d", "o", " ", "W", "a", "r", "n", "i", "n", "g">>, "allowed",
                      "none", "none", x[3], x[4], "warning", "null") :
        x \in {"rawText", "stanza"} \X {CAP12, CAP11, <<"j", "a", "b", "b", "e", "r", ":", "c", "l", "i", "e", "n", "t">>}
                  \X {0, 1, 2} \X {NULL, <<"K", "Y", "C", "1", "0", "5">>, <<"I", "N", "C", "0", "0", "1", ",", " ", "K", "Y", "C", "0", "7", "5">>} }
    \cup
    \* polygons of every kind in an alert that is well-formed otherwise
    { ParseInputShape(x[1], CAP12, <<"A", "l", "e", "r", "t">>, <<"T", "o", "r", "n", "a", "d", "o", " ", "W", "a", "r", "n", "i", "n", "g">>, "allowed",
                      x[2], "none", 1, NULL, "warning", "null") :
        x \in { y \in {"rawText", "stanza"} \X (DOMAIN PolygonChoices) :
                    y[1] = "stanza" => y[2] \notin ObjectChoices } }
    \cup
    \* geocodes of every kind under a configured UGC_FILTER_CODES
    { ParseInputShape(x[1], CAP12, <<"A", "l", "e", "r", "t">>, <<"T", "o", "r", "n", "a", "d", "o", " ", "W", "a", "r", "n", "i", "n", "g">>, x[2],
                      "none", "none", x[3], x[4], "plain", "null") :
        x \in { y \in {"rawText", "stanza"} \X (DOMAIN GeocodeChoices)
                        \X {1, 2} \X {<<"K", "Y", "C", "1", "0", "5">>, <<"I", "N", "C", "0", "0", "1", ",", " ", "K", "Y", "C", "0", "7", "5">>} :
                    y[1] = "stanza" => y[2] \notin ObjectChoices } }
    \cup
    \* events of the first info block, present or not, before other blocks
    { ParseInputShape(x[1], x[2], <<"A", "l", "e", "r", "t">>, x[3], "allowed", "none", "none",
                      x[4], NULL, "plain", "null") :
        x \in {"rawText", "stanza"} \X {CAP12, CAP11}
                  \X {<<"T", "e", "s", "t", " ", "M", "e", "s", "s", "a", "g", "e">>, <<"S", "m", "a", "l", "l", " ", "C", "r", "a", "f", "t", " ", "A", "d", "v", "i", "s", "o", "r", "y">>,
                      <<"T", "o", "r", "n", "a", "d", "o", " ", "W", "a", "r", "n", "i", "n", "g">>, UNDEFINED, <<>>}
                  \X {1, 2, 3} }
    \cup
    \* a CAP alert without a usable polygon over a text with a short block
    { ParseInputShape(w, CAP12, <<"A", "l", "e", "r", "t">>, <<"T", "o", "r", "n", "a", "d", "o", " ", "W", "a", "r", "n", "i", "n", "g">>, "allowed", p,
                      "none", 1, NULL, "twoPairs", "null") :
        w \in {"rawText", "stanza"}, p \in {"none", "short"} }
    \cup
    \* a CAP alert next to the text of a storm report
    { ParseInputShape(x[1], x[2], <<"A", "l", "e", "r", "t">>, x[3], "allowed", "none", "none", 1,
                      x[4], x[5], "null") :
        x \in {"rawText", "stanza"} \X {CAP12, CAP11}
                  \X {<<"T", "o", "r", "n", "a", "d", "o", " ", "W", "a", "r", "n", "i", "n", "g">>, <<"T", "e", "s", "t", " ", "M", "e", "s", "s", "a", "g", "e">>}
                  \X {NULL, <<"I", "N", "C", "0", "0", "1", ",", " ", "K", "Y", "C", "0", "7", "5">>} \X {"lsrPaducah", "lsrLower"} }
    \cup
    \* no CAP alert: product texts and storm report elements
    { ParseInputShape(x[1], CAP12, UNDEFINED, UNDEFINED, "none", "none", "none",
                      0, NULL, x[2], x[3]) :
        x \in {"none", "malformed", "other", "emptyStanza"} \X (DOMAIN TextChoices)
                  \X {"null", "logger", "element"} }

InputId == <<"K", "P", "A", "H", ".", "1", "2", "3", "4">>

InputAlert(in, shape) ==
    CapAlert(shape, in.xmlns, in.msgType,
        IF in.infos = 0 THEN <<>>
        ELSE << CapInfo(in.event, GeocodeChoices[in.geocode],
                        PolygonChoices[in.polygon],
                        ParameterChoices[in.parameter]) >>
                 \o (IF in.infos = 2 THEN <<SecondInfo>> ELSE <<>>)
                 \o (IF in.infos = 3 THEN <<DeniedInfo, SecondInfo>> ELSE <<>>))

InputRawText(in) ==
    [ text |-> TextChoices[in.text],
      xml |-> CASE in.where = "rawText" -> InputAlert(in, "xml2js")
                [] in.where = "malformed" -> [kind |-> "malformed"]
                [] in.where = "other" -> [kind |-> "other"]
                [] OTHER -> NoXml ]

InputStanza(in) ==
    CASE in.where = "stanza" -> [alert |-> InputAlert(in, "xmpp")]
      [] in.where = "emptyStanza" -> [alert |-> NullObj]
      [] OTHER -> NullObj

\* the CAP element of the input, wherever it is
InputCapElement(in) ==
    CASE in.where = "rawText" -> InputAlert(in, "xml2js")
      [] in.where = "stanza" -> InputAlert(in, "xmpp")
      [] OTHER -> NullObj

InputElement(in) ==
    CASE in.element = "logger" -> LoggerObject
      [] in.element = "element" ->
             [shape |-> "xmpp",
              fields |-> [summary |-> <<"T", "O", "R", "N", "A", "D", "O">>, location |-> <<"3", " ", "W", " ", "T", "O", "W", "N">>,
                          latitude |-> <<"3", "7", ".", "1">>, longitude |-> <<"a", "b", "c">>]]
      [] OTHER -> NullObj

\* a caller of categorizeMessage(rawText, id, stanza)
CallCategorize ==
    /\ parseIn.case = "input"
    /\ parseOut.called = "none"
    /\ \E r \in {categorizeMessage(InputRawText(parseIn), InputId,
                                    InputStanza(parseIn), parseIn.ugcFilter)} :
           parseOut' = [called |-> "categorizeMessage", threw |-> r.threw,
                        value |-> r.value]
    /\ UNCHANGED <<parseIn, ugcVars, vtecVars, pipelineVars, clientVars>>

\* a caller of parseAlert(rawText, id, capAlertElement, logger)
CallParseAlert ==
    /\ parseIn.case = "input"
    /\ parseOut.called = "none"
    /\ \E r \in {parseAlert(InputRawText(parseIn).text, InputId,
                             InputCapElement(parseIn))} :
           parseOut' = [called |-> "parseAlert", threw |-> r.threw,
                        value |-> r.value]
    /\ UNCHANGED <<parseIn, ugcVars, vtecVars, pipelineVars, clientVars>>

\* a caller of parseStormReport(rawText, id, stormReportElement)
CallParseStormReport ==
    /\ parseIn.case = "input"
    /\ parseOut.called = "none"
    /\ \E r \in {parseStormReport(InputRawText(parseIn).text, InputId,
                                   InputElement(parseIn))} :
           parseOut' = [called |-> "parseStormReport", threw |-> r.threw,
                        value |-> r.value]
    /\ UNCHANGED <<parseIn, ugcVars, vtecVars, pipelineVars, clientVars>>

\* parseAlert's call of parseCapAlertDetails(capAlertElement, logger)
\* with a CAP element
CallParseCapAlertDetails ==
    /\ parseIn.case = "input"
    /\ parseOut.called = "none"
    /\ InputCapElement(parseIn) # NullObj
    /\ \E r \in {parseCapAlertDetails(InputCapElement(parseIn))} :
           parseOut' = [called |-> "parseCapAlertDetails", threw |-> r.threw,
                        value |-> r.details]
    /\ UNCHANGED <<parseIn, ugcVars, vtecVars, pipelineVars, clientVars>>

\* the LAT...LON blocks: up to MaxPairs pairs of tokens
MaxPairs == 4
PairChoices ==
    { << <<"3", "7", "1", "0">>, <<"8", "8", "7", "0">> >>, << <<"3", "7", "2", "0">>, <<"8", "8", "6", "0">> >>,
      << <<"3", "7", "0", "0">>, <<"-", "8", "8", "5", "0">> >>, << <<"a", "b", "c">>, <<"8", "8", "4", "0">> >> }
BlockInputs ==
    { [case |-> "block", pairs |-> ps] :
        ps \in UNION { [1..n -> PairChoices] : n \in 0..MaxPairs } }
\* the product text that holds the block
BlockMessage(in) ==
    Join(<< <<"W", "U", "U", "S", "5", "3", " ", "K", "P", "A", "H", " ", "2", "1", "2", "2", "5", "4">>,
            <<"L", "A", "T", ".", ".", ".", "L", "O", "N", " ">> \o Join(Flatten(in.pairs), <<" ">>) >>, NL)

\* a caller of rawParser.getPolygonCoordinatesByText(message)
CallGetPolygonCoordinatesByText ==
    /\ parseIn.case = "block"
    /\ parseOut.called = "none"
    /\ parseOut' = [called |-> "getPolygonCoordinatesByText", threw |-> FALSE,
                    value |-> getPolygonCoordinatesByText(BlockMessage(parseIn))]
    /\ UNCHANGED <<parseIn, ugcVars, vtecVars, pipelineVars, clientVars>>

\* the records handed to parseTabularLsrData: eventTime known, summary and
\* eventLocation empty, coordinates not set, set as the line prints them,
\* or set to another place
CoordinateChoices ==
    [ unset |-> <<>>,
      matching |-> [latitude |-> [nan |-> FALSE, val |-> 4078],
                    longitude |-> [nan |-> FALSE, val |-> 0 - 7397]],
      other |-> [latitude |-> [nan |-> FALSE, val |-> 3710],
                 longitude |-> [nan |-> FALSE, val |-> 0 - 8870]] ]
\* the fields parseTabularLsrData fills, and the sets of them that the
\* record holds already
FilledFields == {"summary", "eventLocation", "magnitude", "dataSource", "remarks"}
PresetChoices ==
    { {}, FilledFields, {"summary", "magnitude"},
      {"eventLocation", "dataSource", "remarks"} }
TabularInputs ==
    { [case |-> "tabular", text |-> t, coordinates |-> c, empty |-> e,
       preset |-> p] :
        t \in {"line", "table", "otherTime"}, c \in DOMAIN CoordinateChoices,
        e \in {NULL, UNDEFINED, <<>>}, p \in PresetChoices }
TabularText(in) ==
    CASE in.text = "line" -> LsrTabularLines[2]
      [] in.text = "table" -> Join(LsrTabularLines, NL)
      [] in.text = "otherTime" ->
             Join(<< <<>>, <<"0", "3", "0", "0", " ", "P", "M", " ", " ", " ", " ", " ", "H", "A", "I", "L", " ", " ", " ", " ", " ", " ", " ", " ", " ", " ", " ", " ", " ", "1", " ", "N", " ", "C", "E", "N", "T", "R", "A", "L", " ", "P", "A", "R", "K", " ", " ", " ", " ", " ", " ", "4", "0", ".", "7", "8", "N", " ", "7", "3", ".", "9", "7", "W">>,
                     LsrTabularLines[3], <<>>, LsrTabularLines[5] >>, NL)
\* the value of a field on entry
PresetValues ==
    [ summary |-> <<"T", "O", "R", "N", "A", "D", "O">>, eventLocation |-> <<"3", " ", "W", " ", "T", "O", "W", "N">>,
      magnitude |-> <<"E", "6", "0", " ", "M", "P", "H">>, dataSource |-> <<"P", "U", "B", "L", "I", "C">>,
      remarks |-> <<"T", "R", "E", "E", "S", " ", "D", "O", "W", "N", ".">> ]
PresetValue(in, field) ==
    IF field \in in.preset THEN PresetValues[field] ELSE in.empty
TabularRecord(in) ==
    CoordinateChoices[in.coordinates]
        @@ [ id |-> InputId, source |-> "nwws-oi", type |-> "Local Storm Report",
             raw_product_text |-> TabularText(in),
             eventTime |-> <<"0", "1", "5", "5", " ", "P", "M">>,
             issuingOffice |-> <<"P", "a", "d", "u", "c", "a", "h", " ", "K", "Y">> ]
        @@ [f \in FilledFields |-> PresetValue(in, f)]

\* parseStormReport's call of parseTabularLsrData(rawText, reportData)
CallParseTabularLsrData ==
    /\ parseIn.case = "tabular"
    /\ parseOut.called = "none"
    /\ parseOut' = [called |-> "parseTabularLsrData", threw |-> FALSE,
                    value |-> parseTabularLsrData(TabularText(parseIn),
                                                  TabularRecord(parseIn))]
    /\ UNCHANGED <<parseIn, ugcVars, vtecVars, pipelineVars, clientVars>>

ParseInit ==
    /\ parseIn \in ParseInputs \cup BlockInputs \cup TabularInputs
    /\ parseOut = ParseIdle
    /\ UgcAtRest
    /\ VtecAtRest
    /\ PipelineAtRest
    /\ ClientAtRest

ParseNext ==
    \/ CallCategorize
    \/ CallParseAlert
    \/ CallParseStormReport
    \/ CallParseCapAlertDetails
    \/ CallParseTabularLsrData
    \/ CallGetPolygonCoordinatesByText

SpecParse == ParseInit /\ [][ParseNext]_vars

-----------------------------------------------------------------------------
(* parser_config.js: the default export that index.js reads *)

allowed_events ==
    << <<"T", "o", "r", "n", "a", "d", "o", " ", "W", "a", "r", "n", "i", "n", "g">>, <<"S", "e", "v", "e", "r", "e", " ", "T", "h", "u", "n", "d", "e", "r", "s", "t", "o", "r", "m", " ", "W", "a", "r", "n", "i", "n", "g">>,
       <<"F", "l", "a", "s", "h", " ", "F", "l", "o", "o", "d", " ", "W", "a", "r", "n", "i", "n", "g">>, <<"F", "l", "o", "o", "d", " ", "W", "a", "r", "n", "i", "n", "g">> >>

allowed_ugc_codes ==
    << <<"K", "Y", "C", "1", "0", "5">>, <<"K", "Y", "C", "0", "7", "5">>, <<"K", "Y", "C", "0", "3", "9">>, <<"K", "Y", "C", "0", "0", "7">>, <<"K", "Y", "C", "1", "4", "5">>, <<"K", "Y", "C", "0", "8", "3">>,
       <<"K", "Y", "C", "1", "5", "7">>, <<"K", "Y", "C", "0", "3", "5">>, <<"K", "Y", "C", "1", "3", "9">>, <<"K", "Y", "C", "2", "2", "1">>, <<"K", "Y", "C", "1", "4", "3">>, <<"K", "Y", "C", "0", "5", "5">>,
       <<"K", "Y", "C", "0", "3", "3">>, <<"K", "Y", "C", "0", "4", "7">>, <<"K", "Y", "C", "1", "0", "7">>, <<"K", "Y", "C", "2", "3", "3">>, <<"K", "Y", "C", "2", "2", "5">>, <<"K", "Y", "C", "1", "0", "1">>,
       <<"K", "Y", "C", "0", "5", "9">>, <<"K", "Y", "C", "1", "4", "9">>, <<"K", "Y", "C", "1", "7", "7">>, <<"K", "Y", "C", "2", "1", "9">>, <<"K", "Y", "C", "1", "4", "1">>, <<"K", "Y", "C", "2", "1", "3">>,
       <<"K", "Y", "C", "0", "3", "1">>, <<"K", "Y", "C", "1", "8", "3">>, <<"K", "Y", "C", "0", "9", "1">>, <<"K", "Y", "C", "2", "2", "7">> >>

allowed_lsr_issuing_offices == << <<"P", "a", "d", "u", "c", "a", "h", " ", "K", "Y">>, <<"L", "o", "u", "i", "s", "v", "i", "l", "l", "e", " ", "K", "Y">> >>

\* Array.prototype.includes
ArrayIncludes(array, x) == \E k \in 1..Len(array) : array[k] = x

\* an object-valued property, NullObj when the record has none
GetObject(obj, key) == IF key \in DOMAIN obj THEN obj[key] ELSE NullObj

\* shouldProcessUgc(parsedUgc)
shouldProcessUgc(parsedUgc) ==
    IF parsedUgc = NullObj \/ Len(parsedUgc.zones) = 0 THEN FALSE
    ELSE \E z \in 1..Len(parsedUgc.zones) :
             ArrayIncludes(allowed_ugc_codes, parsedUgc.zones[z])

\* shouldProcessLsrByOffice(issuingOffice)
shouldProcessLsrByOffice(issuingOffice) ==
    IF ~Truthy(issuingOffice) THEN FALSE
    ELSE IF Len(allowed_lsr_issuing_offices) = 0 THEN TRUE
    ELSE ArrayIncludes(allowed_lsr_issuing_offices, issuingOffice)

-----------------------------------------------------------------------------
(* index.js: handleIncomingMessage *)

\* variant of AlertRejection without the event allow-list
AlertRejectionUgcOnly(parsedData) ==
    IF parsedData = NullObj THEN "parse_null"
    ELSE IF Len(allowed_ugc_codes) > 0
            /\ ~shouldProcessUgc(GetObject(parsedData, "ugc"))
    THEN "ugc_filtered"
    ELSE "pass"

\* variant of AlertRejection without the UGC allow-list
AlertRejectionEventOnly(parsedData) ==
    IF parsedData = NullObj THEN "parse_null"
    ELSE IF ~Truthy(Get(parsedData, "event")) THEN "pass"
    ELSE IF ~IsString(parsedData.event) THEN "threw"
    ELSE IF ~ArrayIncludes([k \in 1..Len(allowed_events) |->
                               ToLowerCase(allowed_events[k])],
                           ToLowerCase(parsedData.event))
    THEN "event_filtered"
    ELSE "pass"

\* the checks between parseAlert and the image generation: the reason the
\* handler returns early, "threw" when a statement fails, or "pass"
AlertRejection(parsedData) ==
    IF parsedData = NullObj THEN "parse_null"
    ELSE IF Len(allowed_ugc_codes) > 0
            /\ ~shouldProcessUgc(GetObject(parsedData, "ugc"))
    THEN "ugc_filtered"
    ELSE IF ~Truthy(Get(parsedData, "event")) THEN "pass"
    ELSE IF ~IsString(parsedData.event) THEN "threw"
    ELSE IF ~ArrayIncludes([k \in 1..Len(allowed_events) |->
                               ToLowerCase(allowed_events[k])],
                           ToLowerCase(parsedData.event))
    THEN "event_filtered"
    ELSE "pass"

\* variant of StormReportRejection that lets only the first report of the
\* process through
StormReportRejectionAfterFirst(parsedData) ==
    IF received > 1 THEN "office_filtered" ELSE "pass"

\* variant of StormReportRejection without the check of the summary
StormReportRejectionOfficeOnly(parsedData) ==
    IF Len(allowed_lsr_issuing_offices) > 0
       /\ ~shouldProcessLsrByOffice(Get(parsedData, "issuingOffice"))
    THEN "office_filtered"
    ELSE "pass"

\* the checks between parseStormReport and the image generation
StormReportRejection(parsedData) ==
    IF Get(parsedData, "summary") = <<"R", "a", "i", "n">> THEN "rain"
    ELSE IF Len(allowed_lsr_issuing_offices) > 0
            /\ ~shouldProcessLsrByOffice(Get(parsedData, "issuingOffice"))
    THEN "office_filtered"
    ELSE "pass"

\* handleIncomingMessage from the resumption after categorizeMessage up to
\* the call of the image service: [outcome, data]; outcome "pass" means the
\* image is awaited with data as parsedData
AfterCategorize(message, ugcFilterCodesEnv) ==
    LET Stop(outcome) == [outcome |-> outcome, data |-> NullObj]
        Filtered(messageType, parsedData, rejection) ==
            IF rejection # "pass" THEN Stop(rejection)
            ELSE [outcome |-> "pass",
                  data |-> [messageType |-> messageType] @@ parsedData]
        OfAlert(alert) ==
            IF alert.threw THEN Stop("threw")
            ELSE Filtered("alert", alert.value, AlertRejection(alert.value))
        OfReport(report) ==
            IF report.threw THEN Stop("threw")
            ELSE Filtered("storm_report", report.value,
                          StormReportRejection(report.value))
        OfCategory(categoryResult) ==
            IF categoryResult.threw THEN Stop("threw")
            ELSE IF categoryResult.value.category = "alert"
            THEN OfAlert(parseAlert(message.rawText.text, message.id,
                                    categoryResult.value.capAlertElement))
            ELSE IF categoryResult.value.category = "storm_report"
            THEN OfReport(parseStormReport(message.rawText.text, message.id,
                                           LoggerObject))
            ELSE Stop("unknown_category")
    IN  OfCategory(categorizeMessage(message.rawText, message.id, message.stanza,
                                     ugcFilterCodesEnv))

-----------------------------------------------------------------------------
(* Spec: the stanzas of the room passing through handleStanza and
   handleIncomingMessage *)

MaxStanzas == 2

\* XMPP_ROOM and XMPP_USER
room == <<"n", "w", "w", "s", "@", "c", "o", "n", "f", "e", "r", "e", "n", "c", "e", ".", "n", "w", "w", "s", "-", "o", "i", ".", "w", "e", "a", "t", "h", "e", "r", ".", "g", "o", "v">>
user == <<"m", "o", "n", "i", "t", "o", "r">>

\* the products the room delivers, as inputs of the parsers
Product(where, msgType, event, geocode, polygon, text) ==
    ParseInputShape(where, CAP12, msgType, event, geocode, polygon, "none", 1,
                    NULL, text, "null")
Report(text) ==
    ParseInputShape("none", CAP12, UNDEFINED, UNDEFINED, "none", "none", "none",
                    0, NULL, text, "null")
Products ==
    { Product("rawText", <<"A", "l", "e", "r", "t">>, <<"T", "o", "r", "n", "a", "d", "o", " ", "W", "a", "r", "n", "i", "n", "g">>, "allowed", "good", "warning"),
      Product("stanza", <<"A", "l", "e", "r", "t">>, <<"t", "o", "r", "n", "a", "d", "o", " ", "w", "a", "r", "n", "i", "n", "g">>, "spaced", "none", "warning"),
      Product("rawText", <<"C", "a", "n", "c", "e", "l">>, <<"T", "o", "r", "n", "a", "d", "o", " ", "W", "a", "r", "n", "i", "n", "g">>, "allowed", "good", "warning"),
      Product("rawText", <<"A", "l", "e", "r", "t">>, <<"W", "i", "n", "t", "e", "r", " ", "S", "t", "o", "r", "m", " ", "W", "a", "t", "c", "h">>, "allowed", "good", "warning"),
      Product("stanza", <<"A", "l", "e", "r", "t">>, <<"T", "e", "s", "t", " ", "M", "e", "s", "s", "a", "g", "e">>, "allowed", "good", "warning"),
      Product("rawText", <<"A", "l", "e", "r", "t">>, <<"T", "o", "r", "n", "a", "d", "o", " ", "W", "a", "r", "n", "i", "n", "g">>, "other", "good", "warning"),
      Product("rawText", <<"A", "l", "e", "r", "t">>, <<"T", "o", "r", "n", "a", "d", "o", " ", "W", "a", "r", "n", "i", "n", "g">>, "none", "good", "plain"),
      Product("rawText", <<"A", "l", "e", "r", "t">>, <<"T", "o", "r", "n", "a", "d", "o", " ", "W", "a", "r", "n", "i", "n", "g">>, "none", "object", "warning"),
      Product("stanza", <<"A", "l", "e", "r", "t">>, UNDEFINED, "allowed", "none", "plain"),
      Product("rawText", <<"A", "l", "e", "r", "t">>, <<"t", "o", "r", "n", "a", "d", "o", " ", "w", "a", "r", "n", "i", "n", "g">>, "fips", "good", "warning"),
      Report("lsrPaducah"), Report("lsrRain"), Report("lsrLower"),
      Report("lsrNoOffice"), Report("plain") }

\* the message handleStanza hands to onMessage for a product
Message(product) ==
    [ rawText |-> InputRawText(product), id |-> InputId,
      stanza |-> InputStanza(product) ]

\* a stanza: its name, its from and type attributes and its <x> child
\* (NullObj, or its id attribute and whether it has a first child)
Stanza(name, from, type, x) == [name |-> name, from |-> from, type |-> type, x |-> x]
Payload(id, filled) == [id |-> id, filled |-> filled]
FromRoom == room \o <<"/", "n", "w", "w", "s", "-", "o", "i">>
Stanzas ==
    { [env |-> Stanza("message", FromRoom, <<"g", "r", "o", "u", "p", "c", "h", "a", "t">>, Payload(InputId, TRUE)),
       product |-> p] : p \in Products }
    \cup
    { [env |-> e, product |-> Report("plain")] :
        e \in { Stanza("presence", FromRoom, UNDEFINED, Payload(InputId, TRUE)),
                Stanza("message", room \o <<"/">> \o user, <<"g", "r", "o", "u", "p", "c", "h", "a", "t">>,
                       Payload(InputId, TRUE)),
                Stanza("message", <<"o", "t", "h", "e", "r", "@", "e", "x", "a", "m", "p", "l", "e", ".", "o", "r", "g", "/", "x">>, <<"g", "r", "o", "u", "p", "c", "h", "a", "t">>,
                       Payload(InputId, TRUE)),
                Stanza("message", UNDEFINED, <<"g", "r", "o", "u", "p", "c", "h", "a", "t">>, Payload(InputId, TRUE)),
                Stanza("message", FromRoom, <<"e", "r", "r", "o", "r">>, Payload(InputId, TRUE)),
                Stanza("message", FromRoom, <<"g", "r", "o", "u", "p", "c", "h", "a", "t">>, NullObj),
                Stanza("message", FromRoom, <<"g", "r", "o", "u", "p", "c", "h", "a", "t">>, Payload(UNDEFINED, TRUE)),
                Stanza("message", FromRoom, <<"g", "r", "o", "u", "p", "c", "h", "a", "t">>, Payload(InputId, FALSE)) } }

CallsOnMessageWithAnyPayload(stanza) ==
    /\ stanza.name = "message"
    /\ Truthy(stanza.from)
    /\ StartsWith(stanza.from, room)
    /\ ~EndsWith(stanza.from, <<"/">> \o user)
    /\ stanza.type # <<"e", "r", "r", "o", "r">>
    /\ stanza.x # NullObj

\* the condition under which handleStanza calls this.onMessage
CallsOnMessage(stanza) ==
    /\ stanza.name = "message"
    /\ Truthy(stanza.from)
    /\ StartsWith(stanza.from, room)
    /\ ~EndsWith(stanza.from, <<"/">> \o user)
    /\ stanza.type # <<"e", "r", "r", "o", "r">>
    /\ stanza.x # NullObj
    /\ stanza.x.filled
    /\ Truthy(stanza.x.id)

UgcFilterChoices == {NULL, <<"I", "N", "C", "0", "0", "1">>}

\* AfterCategorize over the products and the values of UGC_FILTER_CODES
Decisions ==
    [ p \in Products, u \in UgcFilterChoices |-> AfterCategorize(Message(p), u) ]

NewHandler(product) ==
    [ product |-> product, pc |-> "categorize", decision |-> "pending",
      outcome |-> "running", data |-> NullObj, deleted |-> FALSE,
      imagePath |-> FALSE, imageBuffer |-> FALSE ]

Finish(h, outcome) ==
    handlers' = [handlers EXCEPT ![h].pc = "done", ![h].outcome = outcome]

\* client.js handleStanza(stanza): a product stanza starts
\* handleIncomingMessage, which runs up to its await of categorizeMessage;
\* the call is not awaited
HandleStanza ==
    \E s \in Stanzas :
        /\ received < MaxStanzas
        /\ received' = received + 1
        /\ handlers' = IF CallsOnMessage(s.env)
                       THEN Append(handlers,
                                   [stanza |-> s.env, number |-> received + 1]
                                   @@ NewHandler(s.product))
                       ELSE handlers
        /\ UNCHANGED <<env, sent, ugcVars, vtecVars, parseVars, clientVars>>

\* handleIncomingMessage resumes with the category, parses, filters and
\* calls the image service
ResumeAfterCategorize ==
    \E h \in 1..Len(handlers) :
        /\ handlers[h].pc = "categorize"
        /\ \E d \in {Decisions[handlers[h].product, env.UGC_FILTER_CODES]} :
               IF d.outcome = "pass"
               THEN handlers' = [handlers EXCEPT ![h].pc = "image",
                                                 ![h].decision = "pass",
                                                 ![h].data = d.data]
               ELSE handlers' = [handlers EXCEPT ![h].pc = "done",
                                                 ![h].decision = d.outcome,
                                                 ![h].outcome = d.outcome]
        /\ UNCHANGED <<env, received, sent, ugcVars, vtecVars, parseVars, clientVars>>

\* the image service settles: with a path, with no path, or by rejecting
ImageSettled ==
    \E h \in 1..Len(handlers), result \in {"path", "none", "error"} :
        /\ handlers[h].pc = "image"
        /\ CASE result = "path" -> handlers' = [handlers EXCEPT ![h].pc = "read",
                                                                ![h].imagePath = TRUE]
             [] result = "none" -> Finish(h, "no_image")
             [] result = "error" -> Finish(h, "image_error")
        /\ UNCHANGED <<env, received, sent, ugcVars, vtecVars, parseVars, clientVars>>

HasImageOrNot(imageBuffer, imageFileName) == TRUE

\* imageBuffer && imageFileName: the condition of the call of sendToWebhook
HasImage(imageBuffer, imageFileName) == imageBuffer /\ imageFileName

\* fs.readFile settles, setting imageBuffer and imageFileName when it
\* succeeded; the handler runs to its end and calls sendToWebhook
\* when it has a URL and an image buffer
ReadSettled ==
    \E h \in 1..Len(handlers), read \in BOOLEAN :
        /\ handlers[h].pc = "read"
        /\ IF ~Truthy(env.WEBHOOK_URL)
           THEN Finish(h, "no_webhook_url") /\ UNCHANGED sent
           ELSE IF HasImage(read, read)
           THEN /\ sent' = Append(sent, [handler |-> h,
                                         product |-> handlers[h].product,
                                         data |-> handlers[h].data])
                /\ handlers' = [handlers EXCEPT ![h].pc = "sending",
                                                ![h].imageBuffer = read]
           ELSE Finish(h, "no_buffer") /\ UNCHANGED sent
        /\ UNCHANGED <<env, received, ugcVars, vtecVars, parseVars, clientVars>>

\* the promise of sendToWebhook settles: it resolves whether the post
\* succeeded or failed, since sendToWebhook catches the error of the post,
\* and the image is unlinked
WebhookSettled ==
    \E h \in 1..Len(handlers), ok \in BOOLEAN :
        /\ handlers[h].pc = "sending"
        /\ handlers' = [handlers EXCEPT ![h].pc = "done",
                                        ![h].outcome = IF ok THEN "sent"
                                                       ELSE "send_failed",
                                        ![h].deleted = TRUE]
        /\ UNCHANGED <<env, received, sent, ugcVars, vtecVars, parseVars, clientVars>>

Init ==
    /\ env \in [WEBHOOK_URL : {NULL, <<"h", "t", "t", "p", "s", ":", "/", "/", "e", "x", "a", "m", "p", "l", "e", ".", "o", "r", "g", "/", "h", "o", "o", "k">>},
                UGC_FILTER_CODES : UgcFilterChoices]
    /\ received = 0
    /\ handlers = <<>>
    /\ sent = <<>>
    /\ UgcAtRest
    /\ VtecAtRest
    /\ ParseAtRest
    /\ ClientAtRest

Next ==
    \/ HandleStanza
    \/ ResumeAfterCategorize
    \/ ImageSettled
    \/ ReadSettled
    \/ WebhookSettled

Spec == Init /\ [][Next]_vars

-----------------------------------------------------------------------------
(* Properties of the pipeline *)

\* the products a handler may forward under the filters of index.js, stated
\* on the results of the categorizer and the parsers
Forwardable ==
    [ p \in Products, u \in UgcFilterChoices |->
        LET message == Message(p)
            decision == categorizeMessage(message.rawText, message.id,
                                          message.stanza, u).value
            alert == parseAlert(message.rawText.text, message.id,
                                decision.capAlertElement).value
            report == parseStormReport(message.rawText.text, message.id,
                                       LoggerObject).value
            allowedZones == {allowed_ugc_codes[k] : k \in 1..Len(allowed_ugc_codes)}
            allowedEvents ==
                {ToLowerCase(allowed_events[k]) : k \in 1..Len(allowed_events)}
            allowedOffices ==
                {allowed_lsr_issuing_offices[k] :
                    k \in 1..Len(allowed_lsr_issuing_offices)}
        IN  \/ /\ decision.category = "alert"
               /\ alert # NullObj
               /\ "ugc" \in DOMAIN alert
               /\ \E z \in 1..Len(alert.ugc.zones) : alert.ugc.zones[z] \in allowedZones
               /\ ToLowerCase(alert.event) \in allowedEvents
            \/ /\ decision.category = "storm_report"
               /\ report["summary"] # <<"R", "a", "i", "n">>
               /\ report["issuingOffice"] \in allowedOffices ]

\* C1: sendToWebhook is never invoked for a message whose category is
\* neither alert nor storm_report, for which parseAlert returned null, or
\* which the UGC allow-list, the event allow-list, the summary 'Rain' check
\* or the LSR office allow-list rejects.
C1_NoForwardWhenRejected ==
    \A k \in 1..Len(sent) : Forwardable[sent[k].product, env.UGC_FILTER_CODES]

\* C1 witness: one handler was stopped by each kind of rejection that two
\* stanzas can show together with a message that was forwarded
C1_Witness ==
    /\ Len(sent) = 1
    /\ \E h \in 1..Len(handlers) :
           /\ handlers[h].pc = "done"
           /\ handlers[h].decision \in {"unknown_category", "ugc_filtered",
                                        "event_filtered", "rain",
                                        "office_filtered"}
           /\ sent[1].handler # h

\* C3: at most one call of handleIncomingMessage is between its start and
\* its completion at any time: the handler of a stanza never starts before
\* the handler of the stanza before it has run to completion.
C3_OneMessageAtATime ==
    Cardinality({h \in 1..Len(handlers) :
                    handlers[h].pc \in {"categorize", "image", "read"}}) <= 1

-----------------------------------------------------------------------------
(* Properties of the categorizer and the parsers *)

\* C2: for every raw text, id and element, malformed CAP entries included,
\* categorizeMessage, parseAlert and parseStormReport return a value and no
\* exception reaches the caller.
C2_NoExceptionEscapes ==
    parseOut.called \in {"categorizeMessage", "parseAlert", "parseStormReport"}
        => ~parseOut.threw

\* C2 witness: parseAlert met a polygon entry that is no string and
\* returned the record with the error stored on it
C2_Witness ==
    /\ parseOut.called = "parseAlert"
    /\ parseIn.polygon = "object"
    /\ ~parseOut.threw
    /\ parseOut.value # NullObj
    /\ "error" \in DOMAIN parseOut.value

\* C5: parseAlert returns null whenever the msgType of the CAP element is
\* 'cancel' or 'update' in any letter case, in either shape.
C5_CancelUpdateSkipped ==
    /\ parseOut.called = "parseAlert"
    /\ InputCapElement(parseIn) # NullObj
    /\ IsString(parseIn.msgType)
    /\ ToLowerCase(parseIn.msgType) \in { <<"c", "a", "n", "c", "e", "l">>, <<"u", "p", "d", "a", "t", "e">> }
    => parseOut.value = NullObj

\* C11: whenever parseAlert returns a record whose geometry is non-null, the
\* single ring of the geometry has at least 4 points and its first point
\* equals its last point, whether the ring came from the first CAP polygon
\* string or from the LAT...LON block of the raw text.
C11_RingClosedAndLong ==
    /\ parseOut.called = "parseAlert"
    /\ parseOut.value # NullObj
    /\ "geometry" \in DOMAIN parseOut.value
    /\ parseOut.value.geometry # NullObj
    => LET ring == parseOut.value.geometry.coordinates[1]
       IN  /\ Len(ring) >= 4
           /\ ~NumDiffers(ring[1][1], ring[Len(ring)][1])
           /\ ~NumDiffers(ring[1][2], ring[Len(ring)][2])

\* C12: for every LAT...LON block that holds at least 3 coordinate pairs,
\* getPolygonCoordinatesByText returns a ring whose first point equals its
\* last point, whose points are [-(second token)/100, (first token)/100] in
\* input order, and in which every longitude is <= 0.
C12_RingOfBlock ==
    /\ parseOut.called = "getPolygonCoordinatesByText"
    /\ Len(parseIn.pairs) >= 3
    /\ \A k \in 1..Len(parseIn.pairs) :
           ~ParseFloat(parseIn.pairs[k][1]).nan /\ ~ParseFloat(parseIn.pairs[k][2]).nan
    => LET ring == parseOut.value
       IN  /\ Len(ring) >= Len(parseIn.pairs)
           /\ ring[1] = ring[Len(ring)]
           /\ \A k \in 1..Len(parseIn.pairs) :
                  /\ ring[k][1].val = 0 - (ParseFloat(parseIn.pairs[k][2]).val \div 100)
                  /\ ring[k][2].val = ParseFloat(parseIn.pairs[k][1]).val \div 100
           /\ \A k \in 1..Len(ring) : ring[k][1].val <= 0

\* C13: for CAP alert content held both as an @xmpp/xml element tree and
\* as the nested object of xml2js, parseCapAlertDetails returns the same
\* value for every field, and no field is present in one result and absent
\* or differently valued in the other.
C13_ShapeInvariance ==
    /\ parseOut.called = "parseCapAlertDetails"
    /\ {parseIn.geocode, parseIn.polygon} \cap ObjectChoices = {}
    => \A shape \in {"xml2js", "xmpp"} :
           LET other == parseCapAlertDetails(InputAlert(parseIn, shape))
           IN  /\ other.threw = parseOut.threw
               /\ other.details = parseOut.value

\* the input holds a CAP alert that categorizeMessage locates: an alert
\* element of the envelope whose namespace starts with the CAP prefix, or
\* XML in the raw text whose root is an alert of the CAP 1.2 namespace
CapLocated(in) ==
    \/ /\ in.where = "stanza"
       /\ IsString(in.xmlns)
       /\ StartsWith(in.xmlns, <<"u", "r", "n", ":", "o", "a", "s", "i", "s", ":", "n", "a", "m", "e", "s", ":", "t", "c", ":", "e", "m", "e", "r", "g", "e", "n", "c", "y", ":", "c", "a", "p", ":">>)
    \/ in.where = "rawText" /\ in.xmlns = CAP12
\* the raw text holds the storm report phrase in some letter case
HasStormReportPhrase(in) ==
    /\ Truthy(TextChoices[in.text])
    /\ Includes(ToUpperCase(TextChoices[in.text]),
                <<"P", "R", "E", "L", "I", "M", "I", "N", "A", "R", "Y", " ", "L", "O", "C", "A", "L", " ", "S", "T", "O", "R", "M", " ", "R", "E", "P", "O", "R", "T">>)

\* C14: categorizeMessage returns category storm_report if and only if no
\* CAP alert element was located, in the envelope or by parsing the XML of
\* the raw text, and the raw text contains 'PRELIMINARY LOCAL STORM REPORT'
\* in some letter case; with a CAP alert located the result is never
\* storm_report.
C14_StormReportCategory ==
    parseOut.called = "categorizeMessage"
    => /\ ~parseOut.threw
       /\ parseOut.value.category = "storm_report"
              <=> ~CapLocated(parseIn) /\ HasStormReportPhrase(parseIn)

\* C14 witness: a raw text with a CAP 1.1 alert in its XML and the phrase in
\* lower case was categorized as a storm report
C14_Witness ==
    /\ parseOut.called = "categorizeMessage"
    /\ parseIn.where = "rawText"
    /\ parseIn.xmlns = CAP11
    /\ parseIn.text = "lsrLower"
    /\ parseOut.value.category = "storm_report"

\* C15: given the tabular line
\* '0155 PM     HAIL             1 N CENTRAL PARK      40.78N 73.97W' and a
\* record whose eventTime is '0155 PM' with summary and eventLocation
\* empty, parseTabularLsrData sets summary to 'HAIL' and eventLocation to
\* exactly '1 N CENTRAL PARK', whether or not latitude and longitude are
\* already set on the record.
C15_HailAtCentralPark ==
    /\ parseOut.called = "parseTabularLsrData"
    /\ parseIn.text \in {"line", "table"}
    /\ parseIn.preset \cap {"summary", "eventLocation"} = {}
    => /\ parseOut.value.summary = <<"H", "A", "I", "L">>
       /\ parseOut.value.eventLocation = <<"1", " ", "N", " ", "C", "E", "N", "T", "R", "A", "L", " ", "P", "A", "R", "K">>

\* the shape YYMMDDThhmmZ of the two times in vtec_regexp:
\* [0-9]{6}T[0-9]{4}Z
IsVtecTime(s) ==
    /\ Len(s) = 12
    /\ \A i \in (1..6) \cup (8..11) : s[i] \in Digit
    /\ s[7] = "T" /\ s[12] = "Z"

\* C16: formatVtecDate maps every VTEC time string of the form YYMMDDThhmmZ
\* (as the VTEC pattern matches it) to '20YY-MM-DDThh:mm:00Z', and returns
\* any string of another length or shape unchanged.
C16_FormatVtecDate ==
    "formatted" \in DOMAIN vtecOut =>
        IF IsVtecTime(vtecIn.date)
        THEN vtecOut.formatted =
                 <<"2", "0">> \o Substring(vtecIn.date, 0, 2) \o <<"-">>
                     \o Substring(vtecIn.date, 2, 4) \o <<"-">>
                     \o Substring(vtecIn.date, 4, 6) \o <<"T">>
                     \o Substring(vtecIn.date, 7, 9) \o <<":">>
                     \o Substring(vtecIn.date, 9, 11) \o <<":", "0", "0", "Z">>
        ELSE vtecOut.formatted = vtecIn.date

\* C17: every alert record forwarded to the webhook has an event name that,
\* lower-cased, is in the lower-cased allowed_events list and, when
\* allowed_ugc_codes is not empty, has at least one UGC zone that
\* allowed_ugc_codes contains.
C17_ForwardedAlertAllowed ==
    \A k \in 1..Len(sent) :
        sent[k].data.messageType = "alert" =>
            /\ \E e \in 1..Len(allowed_events) :
                   ToLowerCase(allowed_events[e])
                       = ToLowerCase(Get(sent[k].data, "event"))
            /\ Len(allowed_ugc_codes) > 0 =>
                   /\ "ugc" \in DOMAIN sent[k].data
                   /\ \E z \in 1..Len(sent[k].data.ugc.zones) :
                          ArrayIncludes(allowed_ugc_codes, sent[k].data.ugc.zones[z])

\* C17 witness: an alert whose event name is written in lower case was
\* forwarded with a zone of the allow-list
C17_Witness ==
    /\ Len(sent) = 1
    /\ sent[1].data.messageType = "alert"
    /\ sent[1].data.event = <<"t", "o", "r", "n", "a", "d", "o", " ", "w", "a", "r", "n", "i", "n", "g">>
    /\ ArrayIncludes(sent[1].data.ugc.zones, <<"K", "Y", "C", "1", "0", "5">>)

\* the inputs of C18: a CAP alert whose only flaw is its polygon, over the
\* text of a warning
MalformedPolygons == {"object", "empty", "nonNumeric", "missingToken"}
OnlyPolygonMalformed(in) ==
    /\ in.case = "input"
    /\ in.where \in {"rawText", "stanza"}
    /\ in.polygon \in MalformedPolygons
    /\ in.xmlns = CAP12 /\ in.msgType = <<"A", "l", "e", "r", "t">>
    /\ in.event = <<"T", "o", "r", "n", "a", "d", "o", " ", "W", "a", "r", "n", "i", "n", "g">>
    /\ in.geocode = "allowed" /\ in.parameter = "none" /\ in.infos = 1
    /\ in.text = "warning"

\* C18: when one CAP field is malformed (a polygon entry that is not a
\* string, or a polygon string with a non-numeric or missing token),
\* parseAlert leaves only that field unset (no polygon with a coordinate
\* that is not a number) and still fills event, severity, headline,
\* affectedAreasDescription, ugc and issuingOffice from the well-formed
\* content.
C18_OnlyMalformedFieldUnset ==
    parseOut.called = "parseAlert" /\ OnlyPolygonMalformed(parseIn)
    => /\ ~parseOut.threw
       /\ parseOut.value # NullObj
       /\ Get(parseOut.value, "event") = <<"T", "o", "r", "n", "a", "d", "o", " ", "W", "a", "r", "n", "i", "n", "g">>
       /\ Get(parseOut.value, "severity") = <<"S", "e", "v", "e", "r", "e">>
       /\ Get(parseOut.value, "headline") = <<"H", "e", "a", "d", "l", "i", "n", "e">>
       /\ Get(parseOut.value, "affectedAreasDescription") = <<"M", "c", "C", "r", "a", "c", "k", "e", "n">>
       /\ GetObject(parseOut.value, "ugc") # NullObj
       /\ parseOut.value.ugc.zones = << <<"K", "Y", "C", "1", "0", "5">> >>
       /\ Get(parseOut.value, "issuingOffice") = <<"P", "a", "d", "u", "c", "a", "h", " ", "K", "Y">>
       /\ GetObject(parseOut.value, "geometry") # NullObj
              => \A k \in 1..Len(parseOut.value.geometry.coordinates[1]) :
                     /\ ~parseOut.value.geometry.coordinates[1][k][1].nan
                     /\ ~parseOut.value.geometry.coordinates[1][k][2].nan

\* the codes of UGC_FILTER_CODES: the pieces between commas, trimmed
FilterSet(in) ==
    {Trim(Split(in.ugcFilter, ",")[k]) : k \in 1..Len(Split(in.ugcFilter, ","))}
\* the values of the geocodes of the input alert whose valueName is UGC, over
\* its info blocks
UgcGeocodeValues(in) ==
    LET Values(geocode) ==
            {geocode[g].value : g \in {h \in 1..Len(geocode) :
                                          geocode[h].valueName = <<"U", "G", "C">>}}
    IN  (IF in.infos >= 1 THEN Values(GeocodeChoices[in.geocode]) ELSE {})
            \cup (IF in.infos >= 2 THEN Values(SecondInfo.area[1].geocode) ELSE {})

\* C19: with a non-empty UGC filter set and a CAP alert parsed from the raw
\* text, categorizeMessage returns a geography-filtered category with
\* capAlertElement null whenever none of the alert's UGC geocode values is
\* in the filter set, and returns category alert only if one of them is.
C19_GeographyFilter ==
    /\ parseOut.called = "categorizeMessage"
    /\ parseIn.where = "rawText" /\ parseIn.xmlns = CAP12
    /\ Truthy(parseIn.ugcFilter)
    => /\ UgcGeocodeValues(parseIn) \cap FilterSet(parseIn) = {}
              => /\ parseOut.value.category
                        \in {"cap_alert_filtered_ugc",
                             "cap_alert_filtered_ugc_no_alert_codes"}
                 /\ parseOut.value.capAlertElement = NullObj
       /\ parseOut.value.category = "alert"
              => UgcGeocodeValues(parseIn) \cap FilterSet(parseIn) # {}

\* C19 witness: an alert of the raw text whose one UGC value holds two codes
\* was filtered under a filter naming one of them
C19_Witness ==
    /\ parseOut.called = "categorizeMessage"
    /\ parseIn.where = "rawText"
    /\ parseIn.geocode = "spaced" /\ parseIn.infos = 1
    /\ parseIn.ugcFilter = <<"K", "Y", "C", "1", "0", "5">>
    /\ parseOut.value.category = "cap_alert_filtered_ugc"

\* the event of the input alert as parseCapAlertDetails reads it: the event
\* of the first info block that has one
AlertEvent(in) == Get(parseCapAlertDetails(InputCapElement(in)).details, "event")

\* C20: whenever a CAP alert is located, in either shape, and its event
\* type is one of the deny-listed types, categorizeMessage returns the
\* event-filtered category with capAlertElement null and never category
\* alert, whatever the number of info blocks of the alert. (Stated for
\* alerts that the UGC filter of the environment does not stop first.)
C20_DeniedEventFiltered ==
    /\ parseOut.called = "categorizeMessage"
    /\ CapLocated(parseIn)
    /\ ~Truthy(parseIn.ugcFilter)
    /\ AlertEvent(parseIn) \in IGNORED_EVENT_TYPES
    => /\ parseOut.value.category = "cap_alert_ignored_event_type"
       /\ parseOut.value.capAlertElement = NullObj

\* the CAP details of the input and the UGC line of its text, as parseAlert
\* obtains them
InputCapUgcCodes(in) ==
    OrElse(Get(parseCapAlertDetails(InputCapElement(in)).details, "capUgcCodes"),
           <<>>)
InputCapThrows(in) == parseCapAlertDetails(InputCapElement(in)).threw

\* C21: when parseCapAlertDetails yields a non-empty capUgcCodes list, the
\* ugc.zones of the record parseAlert returns is that list and the UGC line
\* of the raw text is not used; the result of getUgc on the raw text is the
\* ugc of the record exactly when the CAP list is empty or there is no CAP
\* element.
C21_CapUgcTakesPrecedence ==
    /\ parseOut.called = "parseAlert"
    /\ parseOut.value # NullObj
    /\ ~InputCapThrows(parseIn)
    => IF Len(InputCapUgcCodes(parseIn)) > 0
       THEN /\ "ugc" \in DOMAIN parseOut.value
            /\ parseOut.value.ugc.zones = InputCapUgcCodes(parseIn)
       ELSE GetObject(parseOut.value, "ugc") = getUgc(TextChoices[parseIn.text])

\* C21 witness: the CAP alert names KYC105, the UGC line of the text names
\* KYC105 and KYC145, and the record holds the zone of the CAP alert alone
C21_Witness ==
    /\ parseOut.called = "parseAlert"
    /\ parseOut.value # NullObj
    /\ parseIn.geocode = "allowed" /\ parseIn.text = "warning"
    /\ parseOut.value.ugc.zones = << <<"K", "Y", "C", "1", "0", "5">> >>
    /\ getUgc(TextChoices[parseIn.text]).zones = << <<"K", "Y", "C", "1", "0", "5">>, <<"K", "Y", "C", "1", "4", "5">> >>

\* the info blocks of the element handed to parseCapAlertDetails
InputInfoBlocks(in) == InputCapElement(in).info

\* C22: for each of event, urgency, severity, certainty, effective, onset,
\* expires, headline, description and instruction, parseCapAlertDetails
\* returns the value of the first info block, in document order, in which
\* that field is not empty, each field on its own; no later block
\* overwrites a field that is set.
C22_FirstInfoWinsPerField ==
    parseOut.called = "parseCapAlertDetails" /\ ~parseOut.threw
    => \A f \in InfoTextFields :
           \A i \in 1..Len(InputInfoBlocks(parseIn)) :
               /\ Truthy(InputInfoBlocks(parseIn)[i][f])
               /\ \A j \in 1..(i - 1) : ~Truthy(InputInfoBlocks(parseIn)[j][f])
               => Get(parseOut.value, f) = InputInfoBlocks(parseIn)[i][f]

\* C22 witness: of three info blocks the first gave the headline, the second
\* the event and the instruction, the third the description
C22_Witness ==
    /\ parseOut.called = "parseCapAlertDetails" /\ ~parseOut.threw
    /\ parseIn.infos = 3
    /\ parseOut.value.headline = <<"H", "e", "a", "d", "l", "i", "n", "e">>
    /\ parseOut.value.event = <<"T", "e", "s", "t", " ", "M", "e", "s", "s", "a", "g", "e">>
    /\ parseOut.value.instruction = <<"N", "o", "n", "e">>
    /\ parseOut.value.description = <<"F", "l", "o", "o", "d", " ", "d", "e", "s", "c", "r", "i", "p", "t", "i", "o", "n">>
    /\ parseOut.value.urgency = <<"I", "m", "m", "e", "d", "i", "a", "t", "e">>

\* the codes the entries of a list name: the whitespace-delimited pieces of
\* the values whose valueName, in upper case, is one of names
NamedCodes(entries, names) ==
    Flatten([k \in 1..Len(entries) |->
                IF /\ IsString(entries[k].valueName) /\ IsString(entries[k].value)
                   /\ ToUpperCase(entries[k].valueName) \in names
                THEN Words(entries[k].value) ELSE <<>>])
\* the codes of the info blocks in document order: per block the geocodes
\* of its areas, then its parameters
CodesInDocumentOrder(infoBlocks) ==
    Flatten([i \in 1..Len(infoBlocks) |->
                Flatten([a \in 1..Len(infoBlocks[i].area) |->
                            NamedCodes(infoBlocks[i].area[a].geocode, GeocodeNames)])
                    \o NamedCodes(infoBlocks[i].parameter, ParameterNames)])
\* a list without its repetitions, each code at its first occurrence
FirstOccurrences(codes) ==
    AtPositions(codes, {i \in 1..Len(codes) :
                           \A j \in 1..(i - 1) : codes[j] # codes[i]})

\* C23: capUgcCodes of parseCapAlertDetails is the duplicate-free list, in
\* order of first occurrence, of the single codes found in geocodes whose
\* valueName is UGC or FIPS6 in any letter case and in parameters named
\* UGC; a value holding several whitespace-delimited codes gives one entry
\* per code.
C23_CapUgcCodes ==
    parseOut.called = "parseCapAlertDetails" /\ ~parseOut.threw
    => parseOut.value.capUgcCodes
           = FirstOccurrences(CodesInDocumentOrder(InputInfoBlocks(parseIn)))

\* no line of the text holds the eventTime of the record, so neither search
\* of parseTabularLsrData finds a primary data line
NoPrimaryDataLine(in) ==
    \A k \in 1..Len(Split(TabularText(in), "\n")) :
        ~Includes(Split(TabularText(in), "\n")[k], TabularRecord(in).eventTime)

\* C24: parseTabularLsrData never changes a summary, eventLocation,
\* magnitude, dataSource or remarks that is not empty on entry, never
\* changes id, eventTime, latitude, longitude, issuingOffice or ugc, and
\* changes nothing at all when it finds no primary data line.
C24_FillsOnlyEmptyFields ==
    parseOut.called = "parseTabularLsrData"
    => /\ \A f \in parseIn.preset :
              parseOut.value[f] = TabularRecord(parseIn)[f]
       /\ \A f \in {"id", "eventTime", "latitude", "longitude",
                     "issuingOffice", "ugc"} :
              /\ f \in DOMAIN parseOut.value <=> f \in DOMAIN TabularRecord(parseIn)
              /\ f \in DOMAIN parseOut.value
                     => parseOut.value[f] = TabularRecord(parseIn)[f]
       /\ NoPrimaryDataLine(parseIn) => parseOut.value = TabularRecord(parseIn)

\* C24 witness: on a record that held eventLocation, dataSource and remarks
\* the call filled summary and magnitude from the table and left the three
C24_Witness ==
    /\ parseOut.called = "parseTabularLsrData"
    /\ parseIn.text = "table"
    /\ parseIn.preset = {"eventLocation", "dataSource", "remarks"}
    /\ parseOut.value.summary = <<"H", "A", "I", "L">>
    /\ parseOut.value.magnitude = <<"M", "1", ".", "0", "0", " ", "I", "N", "C", "H">>
    /\ parseOut.value.remarks = <<"T", "R", "E", "E", "S", " ", "D", "O", "W", "N", ".">>
    /\ parseOut.value.eventLocation = <<"3", " ", "W", " ", "T", "O", "W", "N">>

\* C24 witness, second case: a text whose lines hold another time left the
\* record with empty fields as it was
C24_WitnessNoPrimary ==
    /\ parseOut.called = "parseTabularLsrData"
    /\ parseIn.text = "otherTime" /\ parseIn.preset = {}
    /\ parseOut.value = TabularRecord(parseIn)

\* C25: no storm report whose summary is exactly 'Rain' is forwarded to the
\* webhook, and with a non-empty allowed_lsr_issuing_offices no storm
\* report is forwarded whose issuingOffice is missing or not in that list.
C25_ForwardedReportAllowed ==
    \A k \in 1..Len(sent) :
        sent[k].data.messageType = "storm_report" =>
            /\ Get(sent[k].data, "summary") # <<"R", "a", "i", "n">>
            /\ Len(allowed_lsr_issuing_offices) > 0 =>
                   /\ Truthy(Get(sent[k].data, "issuingOffice"))
                   /\ \E o \in 1..Len(allowed_lsr_issuing_offices) :
                          allowed_lsr_issuing_offices[o] = sent[k].data.issuingOffice

\* C25 witness: the report of an allowed office was forwarded, and the
\* handler of another report stopped at the summary or at the office
C25_Witness ==
    /\ Len(sent) = 1
    /\ sent[1].data.messageType = "storm_report"
    /\ sent[1].data.issuingOffice = <<"P", "a", "d", "u", "c", "a", "h", " ", "K", "Y">>
    /\ \E h \in 1..Len(handlers) :
           handlers[h].decision \in {"rain", "office_filtered"}

\* C26: in every result of categorizeMessage capAlertElement is not null if
\* and only if the category is 'alert'; every filtered, storm_report and
\* unknown result carries capAlertElement null.
C26_ElementIffAlert ==
    parseOut.called = "categorizeMessage"
    => /\ ~parseOut.threw
       /\ parseOut.value.capAlertElement # NullObj
              <=> parseOut.value.category = "alert"

\* C26 witness: an alert found in the stanza was ignored by its event type
\* and the result carries no element
C26_Witness ==
    /\ parseOut.called = "categorizeMessage"
    /\ parseIn.where = "stanza"
    /\ parseOut.value.category = "cap_alert_ignored_event_type"
    /\ parseOut.value.capAlertElement = NullObj

-----------------------------------------------------------------------------
(* xmpp/client.js: XMPPClient, its connection and its reconnect timer *)

\* the number of clients that connect() creates in one run of the model
MaxClients == 5

InitialReconnectionTimeout == 5000
MaxReconnectionTimeout == 60000

\* the statuses of a client of the XMPP library that the code tells apart:
\* 'connecting' and 'online' are tested by scheduleReconnect, 'offline' is
\* what stop() leaves, 'disconnect' stands for every other status
Statuses == {"offline", "connecting", "online", "disconnect"}

\* the condition of scheduleReconnect under which it returns at once
AlreadyConnecting(status) == status \in {"connecting", "online"}

\* clearTimeout(this.reconnectTimerId)
ClearTimeout(ts, id) == ts \ {id}

\* the identifier setTimeout returns: one that no pending timer has
SetTimeout(ts) == MinOf((1..(Cardinality(ts) + 1)) \ ts)

BackoffUncapped(timeout) == timeout * 2

\* Math.min(this.reconnectionTimeout * 2, 60000)
Backoff(timeout) == Min2(timeout * 2, MaxReconnectionTimeout)

\* scheduleReconnect(), as the new values of reconnectTimerId and timers
scheduleReconnect(status, id, ts) ==
    IF AlreadyConnecting(status)
    THEN [reconnectTimerId |-> id, timers |-> ts]
    ELSE [reconnectTimerId |-> SetTimeout(ClearTimeout(ts, id)),
          timers |-> ClearTimeout(ts, id)
                     \cup {SetTimeout(ClearTimeout(ts, id))}]

Scheduled(r) ==
    /\ reconnectTimerId' = r.reconnectTimerId
    /\ timers' = r.timers

\* the calls in progress once call a has settled
Settled(att, a) == [k \in 1..(Len(att) - 1) |-> att[IF k < a THEN k ELSE k + 1]]

\* the rejection of connect(): the catch of the timer callback doubles the
\* timeout, the catch of index.js only logs
Rejected(a) ==
    /\ attempts' = Settled(attempts, a)
    /\ reconnectionTimeout' = IF attempts[a].by = "timer"
                              THEN Backoff(reconnectionTimeout)
                              ELSE reconnectionTimeout

otherVars == <<ugcVars, vtecVars, parseVars, pipelineVars>>

\* the call of connect() that index.js is about to make
Startup == [by |-> "startup", client |-> 0, pc |-> "connect", found |-> "none"]

\* index.js calls connect() once; without the settings it rejects before a
\* client is created, otherwise the client is created and started
Connect ==
    /\ attempts = <<Startup>>
    /\ IF configured
       THEN /\ client' = "connecting"
            /\ created' = 1
            /\ attempts' = <<[Startup EXCEPT !.client = 1,
                                             !.pc = "starting"]>>
       ELSE /\ UNCHANGED <<client, created>>
            /\ attempts' = <<>>
    /\ UNCHANGED <<configured, reconnectionTimeout, initialConnection,
                   reconnectTimerId, timers, otherVars>>

\* this.client comes online: the 'online' handler clears initialConnection
\* and sends the presence that joins the room
StartSucceeds ==
    \E a \in 1..Len(attempts) :
        /\ attempts[a].pc = "starting"
        /\ attempts[a].client = created
        /\ client = "connecting"
        /\ client' = "online"
        /\ initialConnection' = FALSE
        /\ attempts' = [attempts EXCEPT ![a].pc = "joining"]
        /\ UNCHANGED <<configured, created, reconnectionTimeout,
                       reconnectTimerId, timers, otherVars>>

\* client.start() rejects; when it is the start of this.client, the client
\* is left connecting or disconnected. The catch clears initialConnection,
\* calls scheduleReconnect and rejects
StartFails ==
    \E a \in 1..Len(attempts), status \in Statuses :
        /\ attempts[a].pc = "starting"
        /\ status \in IF attempts[a].client = created /\ client = "connecting"
                      THEN {"connecting", "disconnect"}
                      ELSE {client}
        /\ client' = status
        /\ initialConnection' = FALSE
        /\ Scheduled(scheduleReconnect(status, reconnectTimerId, timers))
        /\ Rejected(a)
        /\ UNCHANGED <<configured, created, otherVars>>

\* the presence was sent: the timeout is reset and connect() resolves
PresenceSent ==
    \E a \in 1..Len(attempts) :
        /\ attempts[a].pc = "joining"
        /\ reconnectionTimeout' = InitialReconnectionTimeout
        /\ attempts' = Settled(attempts, a)
        /\ UNCHANGED <<configured, client, created, initialConnection,
                       reconnectTimerId, timers, otherVars>>

\* sending the presence failed: scheduleReconnect and rejection
PresenceFailed ==
    \E a \in 1..Len(attempts) :
        /\ attempts[a].pc = "joining"
        /\ Scheduled(scheduleReconnect(client, reconnectTimerId, timers))
        /\ Rejected(a)
        /\ UNCHANGED <<configured, client, created, initialConnection,
                       otherVars>>

\* a client emits 'error'
ErrorEvent ==
    \E condition \in {"not-authorized", "ENOTFOUND", "other"} :
        /\ created > 0
        /\ IF \/ condition = "not-authorized" /\ initialConnection
              \/ condition = "ENOTFOUND"
           THEN UNCHANGED <<reconnectTimerId, timers>>
           ELSE Scheduled(scheduleReconnect(client, reconnectTimerId,
                                            timers))
        /\ UNCHANGED <<configured, client, created, reconnectionTimeout,
                       initialConnection, attempts, otherVars>>

\* the library loses the connection of this.client; the code listens to no
\* event of this
ConnectionLost ==
    /\ client = "online"
    /\ client' = "disconnect"
    /\ UNCHANGED <<configured, created, reconnectionTimeout,
                   initialConnection, reconnectTimerId, timers, attempts,
                   otherVars>>

\* the number of timer callbacks that wait for stop() to settle
Stopping(att) == Cardinality({a \in 1..Len(att) : att[a].pc = "stopping"})

\* a pending timer fires: its callback calls stop() on this.client, which
\* exists whenever a timer was set, in whatever status it has
TimerFires ==
    \E t \in timers :
        /\ created + Stopping(attempts) < MaxClients
        /\ timers' = timers \ {t}
        /\ attempts' = Append(attempts,
                              [by |-> "timer", client |-> 0,
                               pc |-> "stopping", found |-> client])
        /\ UNCHANGED <<configured, client, created, reconnectionTimeout,
                       initialConnection, reconnectTimerId, otherVars>>

\* stop() settles: a client that it takes offline emits 'offline', whose
\* handler calls scheduleReconnect; then connect() creates and starts the
\* next client
StopSettled ==
    \E a \in 1..Len(attempts), ok \in BOOLEAN :
        /\ attempts[a].pc = "stopping"
        /\ Scheduled(IF ok /\ client # "offline"
                     THEN scheduleReconnect("offline", reconnectTimerId,
                                            timers)
                     ELSE [reconnectTimerId |-> reconnectTimerId,
                           timers |-> timers])
        /\ client' = "connecting"
        /\ created' = created + 1
        /\ attempts' = [attempts EXCEPT ![a].pc = "starting",
                                        ![a].client = created + 1]
        /\ UNCHANGED <<configured, reconnectionTimeout, initialConnection,
                       otherVars>>

ClientInit ==
    /\ configured \in BOOLEAN
    /\ client = "null"
    /\ created = 0
    /\ reconnectionTimeout = InitialReconnectionTimeout
    /\ initialConnection = TRUE
    /\ reconnectTimerId = 0
    /\ timers = {}
    /\ attempts = <<Startup>>
    /\ UgcAtRest
    /\ VtecAtRest
    /\ ParseAtRest
    /\ PipelineAtRest

ClientNext ==
    \/ Connect
    \/ StartSucceeds
    \/ StartFails
    \/ PresenceSent
    \/ PresenceFailed
    \/ ErrorEvent
    \/ ConnectionLost
    \/ TimerFires
    \/ StopSettled

SpecClient == ClientInit /\ [][ClientNext]_vars

-----------------------------------------------------------------------------
(* Properties of the client *)

\* C27: a reconnect timer that fires stops and restarts the client only if
\* the client is not online at that moment: no timer callback calls stop()
\* on a client that is online.
C27_TimerSparesOnlineClient ==
    \A a \in 1..Len(attempts) :
        attempts[a].pc = "stopping" => attempts[a].found # "online"

\* the steps that change reconnectionTimeout: the reset to 5000 when the
\* presence of a client that came online was sent, and the doubling, capped
\* at 60000, when connect() rejected in a timer callback
TimeoutStep ==
    reconnectionTimeout' # reconnectionTimeout
    => \E a \in 1..Len(attempts) :
           /\ attempts' = Settled(attempts, a)
           /\ \/ /\ attempts[a].pc = "joining"
                 /\ reconnectionTimeout' = InitialReconnectionTimeout
              \/ /\ attempts[a].by = "timer"
                 /\ attempts[a].pc \in {"starting", "joining"}
                 /\ reconnectionTimeout'
                        = Min2(2 * reconnectionTimeout, MaxReconnectionTimeout)

\* C28: in every reachable state of XMPPClient reconnectionTimeout is
\* between 5000 and 60000 ms and at most one reconnect timer is pending; the
\* timeout is doubled (capped at 60000) only when connect() rejects in a
\* reconnection attempt and is reset to 5000 when a client came online and
\* the room presence was sent.
C28_TimeoutAndTimer ==
    /\ [](/\ reconnectionTimeout >= InitialReconnectionTimeout
          /\ reconnectionTimeout <= MaxReconnectionTimeout
          /\ Cardinality(timers) <= 1)
    /\ [][TimeoutStep]_vars

\* C28 witness: four reconnection attempts in a row were rejected, the
\* timeout stands at its cap and one timer is pending
C28_Witness ==
    /\ reconnectionTimeout = MaxReconnectionTimeout
    /\ created = 5
    /\ Cardinality(timers) = 1

-----------------------------------------------------------------------------
(* Properties of handleStanza *)

\* C29: handleStanza invokes onMessage for a stanza only if it is a message
\* stanza whose from starts with the room JID and does not end with
\* '/<own user>', whose type is not 'error', and whose <x> child has both an
\* id attribute and a first child yielding non-empty text; it invokes
\* onMessage at most once per stanza and never for presence stanzas.
C29_OnMessageOnlyForProducts ==
    /\ Len(handlers) <= received
    /\ \A h \in 1..Len(handlers) :
           /\ handlers[h].stanza.name = "message"
           /\ handlers[h].stanza.name # "presence"
           /\ IsString(handlers[h].stanza.from)
           /\ StartsWith(handlers[h].stanza.from, room)
           /\ ~EndsWith(handlers[h].stanza.from, <<"/">> \o user)
           /\ handlers[h].stanza.type # <<"e", "r", "r", "o", "r">>
           /\ handlers[h].stanza.x # NullObj
           /\ IsString(handlers[h].stanza.x.id)
           /\ handlers[h].stanza.x.id # <<>>
           /\ handlers[h].stanza.x.filled
           /\ \A g \in 1..Len(handlers) :
                  g # h => handlers[g].number # handlers[h].number

\* C29 witness: of two stanzas the second, a product, reached onMessage and
\* the first did not
C29_Witness ==
    /\ received = 2
    /\ Len(handlers) = 1
    /\ handlers[1].number = 2

\* the calls of sendToWebhook made by handler h
SentBy(h) == {k \in 1..Len(sent) : sent[k].handler = h}

====
